---------------------------- MODULE Spec2Model ----------------------------
(***************************************************************************)
(* Model of scripts/build.py: the dependency-closure resolver              *)
(* (resolve_and_download_packages / download_pypi_package) and the         *)
(* patch -> checkpoint -> download -> verify -> checkpoint pipeline of     *)
(* main().                                                                 *)
(*                                                                         *)
(* Package names are sequences of one-character strings, so that the       *)
(* three name forms the code derives (the lock key, the underscore form    *)
(* used in the glob, the distribution prefix of a wheel file name) are     *)
(* computed, not assumed equal.  Versions are naturals.  The recursion of  *)
(* download_pypi_package is an explicit stack of frames.  The network is   *)
(* a nondeterministic choice between success and failure at every call.    *)
(***************************************************************************)
EXTENDS Integers, Sequences, FiniteSets, TLC

VARIABLES
    lock,       \* pyodide-lock.json: [exists, packages: key -> entry]
    disk,       \* wheel files in <output>/pyodide
    reqs,       \* the requirement list (lines of requirements-wasm-extras.in)
    reqFile,    \* whether requirements-wasm-extras.in exists (main only)
    visited,    \* the per-run visited dict: key -> [kind, v]
    stack,      \* frames of download_pypi_package / the git branch, top last
    idx,        \* position of resolve_and_download_packages in reqs
    phase,      \* "idle" | "run" | "done" | "aborted" (exception propagated)
    ret,        \* value returned by the last finished download_pypi_package
    run,        \* which call this is, of the resolver alone or of main()
    lock0,      \* the lock as it was when the current call started
    disk0,      \* the archive directory as it was when the current call started
    metaN,      \* metadata requests of the current call, per key
    dlN,        \* archive downloads of the current call, per key
    buildN,     \* source builds (pip wheel) of the current call
    netFail,    \* network and build failures seen so far: <<kind, key>>
    named,      \* requirements that named a package in the current call
    mainpc,     \* position of main(): "lib" when the resolver is called alone
    errors,     \* _patch_errors: sequence of [step, what, path]
    tree,       \* the output directory: [notebooks, files: path -> file]
    netLog,     \* network-bound pipeline steps main() has started
    pip_conf,   \* the [global] section of pip.conf: [index_url, proxy]
    asked,      \* metadata requests of the current call: [url, proxy]
    index,      \* what the index answers: key -> JSON document
    built       \* what pip wheel produced for the last git+ line of the call

vars == <<lock, disk, reqs, reqFile, visited, stack, idx, phase, ret, run,
          lock0, disk0, metaN, dlN, buildN, netFail, named, mainpc, errors,
          tree, netLog, pip_conf, asked, index, built>>

-----------------------------------------------------------------------------
(* Bounds *)

\* Longest requirement list drawn as input.
MaxReqs == 2

-----------------------------------------------------------------------------
(* Names: _pyodide_normalize, the glob prefixes *)

Separators == {"-", "_", "."}

Lower(ch) ==
    CASE ch = "A" -> "a"
      [] ch = "B" -> "b"
      [] ch = "C" -> "c"
      [] OTHER -> ch

RECURSIVE DropSeparators(_)
DropSeparators(s) ==
    IF s # <<>> /\ Head(s) \in Separators THEN DropSeparators(Tail(s)) ELSE s

\* re.sub(r"[-_.]+", "-", name).lower()
RECURSIVE _pyodide_normalize(_)
_pyodide_normalize(name) ==
    IF name = <<>> THEN <<>>
    ELSE IF Head(name) \in Separators
         THEN <<"-">> \o _pyodide_normalize(DropSeparators(Tail(name)))
         ELSE <<Lower(Head(name))>> \o _pyodide_normalize(Tail(name))

\* name.lower().replace("-", "_")
PkgUnder(name) ==
    [i \in 1..Len(name) |->
        IF Lower(name[i]) = "-" THEN "_" ELSE Lower(name[i])]

-----------------------------------------------------------------------------
(* Versions and specifiers *)

AnySpec == [op |-> "any", v |-> 0]
Ge(v) == [op |-> ">=", v |-> v]
Lt(v) == [op |-> "<", v |-> v]

\* Version(x) in SpecifierSet(str(specifier))
InSpec(ver, spec) ==
    CASE spec.op = "any" -> TRUE
      [] spec.op = ">=" -> ver >= spec.v
      [] spec.op = "<" -> ver < spec.v
      [] OTHER -> ver = spec.v

\* A "version" of a lock entry that packaging.version.Version rejects.
Unparsable == 0

\* The comparison without the except branch.
SatisfiesStrict(ver, spec) == ver # Unparsable /\ InSpec(ver, spec)

\* The try/except of _pyodide_has_package: the comparison, or True when the
\* entry's version does not parse.
Satisfies(ver, spec) == ver = Unparsable \/ InSpec(ver, spec)

-----------------------------------------------------------------------------
(* Wheel files *)

PureTags == {"py3-none-any", "py2.py3-none-any"}

Wheel(dist, ver, tag) == [dist |-> dist, ver |-> ver, tag |-> tag]

VerStr(v) == <<"1", "2", "3", "4", "5">>[v]

\* The file name as characters, up to the version: "<dist>-<version>-"
FileNameChars(f) == f.dist \o <<"-", VerStr(f.ver), "-">>

\* pyodide_dir.glob(f"{prefix}-*.whl") matches f
GlobMatches(prefix, f) ==
    LET pat == prefix \o <<"-">>
        nm == FileNameChars(f)
    IN Len(pat) <= Len(nm) /\ SubSeq(nm, 1, Len(pat)) = pat

\* The normalized package a wheel file belongs to (its distribution prefix).
FileKey(f) == _pyodide_normalize(f.dist)

-----------------------------------------------------------------------------
(* The package index, the source repository and the base distribution      *)
(* the resolver runs against.                                              *)

NameA == <<"a">>
NameB == <<"b">>
NameC == <<"c">>
NameCUpper == <<"C">>
NameD == <<"d">>

\* Version strings that parse as pre- or dev-releases.
PreReleases == {4}

Dep(name, spec, marker, extras, parses) ==
    [name |-> name, spec |-> spec, marker |-> marker, extras |-> extras,
     parses |-> parses]

\* The JSON document https://pypi.org/pypi/<name>/json answers with.
\*   a 1     requires c>=2, and d on win32 only
\*   b 1     requires c<3
\*   c 1..5  5 (the reported latest) has no pure wheel, 4 is a pre-release,
\*           2 lists a platform wheel before its pure one; from 2 on c
\*           requires a (a cycle)
\*   d 1     the only release, so d>=2 has no version in range
\* Every constraint on c is met by c 2.
PypiData(name) ==
    LET k == _pyodide_normalize(name) IN
    CASE k = NameA ->
            [info |-> [version |-> 1],
             releases |-> (1 :> <<Wheel(NameA, 1, "py3-none-any")>>)]
      [] k = NameB ->
            [info |-> [version |-> 1],
             releases |-> (1 :> <<Wheel(NameB, 1, "py3-none-any")>>)]
      [] k = NameC ->
            [info |-> [version |-> 5],
             releases |-> (1 :> <<Wheel(NameC, 1, "py3-none-any")>>
                        @@ 2 :> <<Wheel(NameC, 2, "cp312-cp312-linux"),
                                  Wheel(NameC, 2, "py3-none-any")>>
                        @@ 3 :> <<Wheel(NameC, 3, "py2.py3-none-any")>>
                        @@ 4 :> <<Wheel(NameC, 4, "py3-none-any")>>
                        @@ 5 :> <<Wheel(NameC, 5, "cp312-cp312-linux")>>)]
      [] OTHER ->
            [info |-> [version |-> 1],
             releases |-> (1 :> <<Wheel(NameD, 1, "py3-none-any")>>)]

\* The Requires-Dist lines of a wheel's METADATA.
RequiresDist(f) ==
    LET k == FileKey(f) IN
    CASE k = NameA ->
            <<Dep(NameC, Ge(2), "none", FALSE, TRUE),
              Dep(NameD, AnySpec, "false", FALSE, TRUE)>>
      [] k = NameB /\ f.ver = 1 -> <<Dep(NameC, Lt(3), "none", FALSE, TRUE)>>
      [] k = NameB -> <<Dep(NameCUpper, AnySpec, "true", FALSE, TRUE),
                        Dep(NameD, Ge(2), "none", FALSE, TRUE)>>
      [] k = NameC /\ f.ver >= 2 -> <<Dep(NameA, AnySpec, "none", FALSE, TRUE)>>
      [] OTHER -> <<>>

\* What else the archive of a wheel holds: top_level.txt (its lines, when
\* the file is there) and the first-level directories, each a package, a
\* .dist-info or a .data directory.
\*   a  top_level.txt names a
\*   b  no top_level.txt, a package directory b beside b.data
\*   c  before 3 a top_level.txt of blank lines and no package directory
\*   c from 3 on, and d: no top_level.txt, a single module and no package
\*      directory
Dir(name, kind) == [name |-> name, kind |-> kind]
WheelContents(f) ==
    LET k == FileKey(f)
        info == Dir(k, "dist-info")
    IN CASE k = NameA ->
               [top_level |-> [exists |-> TRUE, lines |-> <<NameA>>],
                dirs |-> {Dir(NameA, "package"), info}]
         [] k = NameB ->
               [top_level |-> [exists |-> FALSE, lines |-> <<>>],
                dirs |-> {Dir(NameB, "package"), Dir(NameB, "data"), info}]
         [] k = NameC /\ f.ver < 3 ->
               [top_level |-> [exists |-> TRUE, lines |-> <<<<>>, <<>>>>],
                dirs |-> {info}]
         [] OTHER ->
               [top_level |-> [exists |-> FALSE, lines |-> <<>>],
                dirs |-> {info}]

\* What "pip wheel --no-deps <git url>" can do for the one source
\* repository: it holds package b at version 2.
GitWheel(tag) == Wheel(NameB, 2, tag)
GitOutcomes ==
    { [returncode |-> 1, wheels |-> FALSE, tag |-> "none", wheelMeta |-> "none"],
      [returncode |-> 0, wheels |-> FALSE, tag |-> "none", wheelMeta |-> "none"],
      [returncode |-> 0, wheels |-> TRUE, tag |-> "py3-none-any",
       wheelMeta |-> "py3-none-any"],
      [returncode |-> 0, wheels |-> TRUE, tag |-> "cp312-cp312-linux",
       wheelMeta |-> "cp312-cp312-linux"],
      [returncode |-> 0, wheels |-> TRUE, tag |-> "cp312-cp312-linux",
       wheelMeta |-> "none"],
      [returncode |-> 0, wheels |-> TRUE, tag |-> "cp312-cp312-linux",
       wheelMeta |-> "py3-none-any"] }

\* Before any git+ line of the call.
NoBuild == [returncode |-> 0, wheels |-> FALSE, tag |-> "", wheelMeta |-> ""]

\* Requirement lines: name[specifier], a git+ URL, or a line that
\* packaging.requirements.Requirement rejects.
Req(name, spec) == [kind |-> "pypi", name |-> name, spec |-> spec]
GitReq == [kind |-> "git", name |-> <<>>, spec |-> AnySpec]
BadReq == [kind |-> "bad", name |-> <<>>, spec |-> AnySpec]

ReqLines ==
    { Req(NameA, AnySpec), Req(NameB, AnySpec), Req(NameC, Lt(3)),
      Req(NameCUpper, Ge(2)), Req(NameD, Ge(2)), GitReq, BadReq }

RECURSIVE SeqsUpTo(_, _)
SeqsUpTo(S, n) ==
    IF n = 0 THEN {<<>>}
    ELSE LET shorter == SeqsUpTo(S, n - 1)
         IN shorter \cup {Append(s, x) : s \in shorter, x \in S}

ReqLists == SeqsUpTo(ReqLines, MaxReqs)

\* hashlib.sha256(Path(wheel_path).read_bytes()).hexdigest(): the digest of
\* the bytes of the local file; a file name stands for its bytes.
Sha256(f) == <<"sha256", f>>

\* An entry of the lock's "packages": the fields the build reads or writes.
\* imports is kept as a set, the order of the list is not modelled.
Entry(key, ver, f, depends, imports) ==
    [name |-> key, version |-> ver, file_name |-> f, sha256 |-> Sha256(f),
     depends |-> depends, imports |-> imports]

NoPackages == [k \in {} |-> 0]

\* The states a run can start from: a lock naming the distribution's own
\* wheels (c 1 here, under either spelling of its file name), an empty
\* lock, an empty lock beside a wheel that an interrupted run downloaded
\* and did not register, a lock whose entry for d has a version that does
\* not parse, or no lock at all.
BaseStates ==
    { [lock |-> [exists |-> TRUE, packages |-> NoPackages], disk |-> {}],
      [lock |-> [exists |-> TRUE,
                 packages |-> (NameC :> Entry(NameC, 1, Wheel(NameC, 1, "py3-none-any"),
                                           <<>>, {NameC}))],
       disk |-> {Wheel(NameC, 1, "py3-none-any")}],
      [lock |-> [exists |-> TRUE,
                 packages |-> (NameC :> Entry(NameC, 1, Wheel(NameCUpper, 1, "py3-none-any"),
                                           <<>>, {NameC}))],
       disk |-> {Wheel(NameCUpper, 1, "py3-none-any")}],
      [lock |-> [exists |-> TRUE, packages |-> NoPackages],
       disk |-> {Wheel(NameA, 1, "py3-none-any")}],
      [lock |-> [exists |-> TRUE,
                 packages |-> (NameD :> Entry(NameD, Unparsable,
                                              Wheel(NameD, 1, "py3-none-any"),
                                              <<>>, {NameD}))],
       disk |-> {Wheel(NameD, 1, "py3-none-any")}],
      [lock |-> [exists |-> FALSE, packages |-> NoPackages], disk |-> {}] }

-----------------------------------------------------------------------------
(* The resolver's helpers *)

\* _pyodide_has_package(lock_data, name, specifier)
_pyodide_has_package(lock_data, name, specifier) ==
    IF ~lock_data.exists THEN FALSE
    ELSE LET pkg_key == _pyodide_normalize(name) IN
         IF pkg_key \notin DOMAIN lock_data.packages THEN FALSE
         ELSE IF specifier.op = "any" THEN TRUE
         ELSE Satisfies(lock_data.packages[pkg_key].version, specifier)

\* The document as it was when the call started.
LoadedAtStart == lock0

\* _load_pyodide_lock(output_dir): the document as it is on disk now.
_load_pyodide_lock == lock

\* _extract_wheel_metadata(wheel_path): the name and the Requires-Dist
\* lines of METADATA, and the imports: the non-blank lines of top_level.txt
\* when the file is there, else the first-level directories that are
\* neither .dist-info nor .data, else the name, lower case with "_".
_extract_wheel_metadata(wheel_path) ==
    LET c == WheelContents(wheel_path)
        name == wheel_path.dist
        guessed == {d.name : d \in {e \in c.dirs : e.kind = "package"}}
    IN [name |-> name,
        requires_dist |-> RequiresDist(wheel_path),
        imports |->
           IF c.top_level.exists
           THEN {c.top_level.lines[i] : i \in 1..Len(c.top_level.lines)}
                   \ {<<>>}
           ELSE IF guessed # {} THEN guessed
           ELSE {PkgUnder(name)}]

\* A registration that writes the imports it is given.
RegisterImportsAsGiven(lock_data, wheel_path, name, version, imports) ==
    IF ~lock_data.exists THEN lock_data
    ELSE LET pkg_key == _pyodide_normalize(name) IN
         [lock_data EXCEPT !.packages =
            [k \in (DOMAIN lock_data.packages) \cup {pkg_key} |->
                IF k = pkg_key
                THEN Entry(pkg_key, version, wheel_path, <<>>, imports)
                ELSE lock_data.packages[k]]]

\* _register_wheel_in_lock(lock_data, lock_path, wheel_path, name, version,
\* imports): nothing without a lock; else set the one entry, with
\* "depends": [] and "imports": imports or [pkg_import], and save the
\* document.
_register_wheel_in_lock(lock_data, wheel_path, name, version, imports) ==
    IF ~lock_data.exists THEN lock_data
    ELSE LET pkg_key == _pyodide_normalize(name)
             pkg_import == PkgUnder(name)
         IN [lock_data EXCEPT !.packages =
               [k \in (DOMAIN lock_data.packages) \cup {pkg_key} |->
                   IF k = pkg_key
                   THEN Entry(pkg_key, version, wheel_path, <<>>,
                              IF imports # {} THEN imports ELSE {pkg_import})
                   ELSE lock_data.packages[k]]]

\* A filter that does not evaluate markers.
KeepsDepAnyMarker(d) == d.parses /\ ~d.extras

\* _filter_requires_dist(requires_dist)
KeepsDep(d) == d.parses /\ d.marker # "false" /\ ~d.extras
_filter_requires_dist(requires_dist) == SelectSeq(requires_dist, KeepsDep)

IsPure(u) == u.tag \in PureTags

\* The first pure-Python wheel of a release's file list, as the for loop
\* finds it; <<>> when there is none.
FirstPure(files) ==
    LET I == {i \in 1..Len(files) : IsPure(files[i])}
    IN IF I = {} THEN <<>>
       ELSE <<files[CHOOSE i \in I : \A j \in I : i <= j]>>

NoVersion == [found |-> FALSE, version |-> 0, wheel_info |-> Wheel(<<>>, 1, "none")]

\* A selection that stops at the reported latest version.
FindLatestOnly(pypi_data, specifier) ==
    LET latest == pypi_data.info.version
        rel == pypi_data.releases
        latestFiles == IF latest \in DOMAIN rel THEN rel[latest] ELSE <<>>
    IN IF InSpec(latest, specifier) /\ FirstPure(latestFiles) # <<>>
       THEN [found |-> TRUE, version |-> latest,
             wheel_info |-> FirstPure(latestFiles)[1]]
       ELSE NoVersion

\* _find_best_version(pypi_data, specifier): release keys that Version()
\* rejects are skipped by the scan.
_find_best_version(pypi_data, specifier) ==
    LET latest == pypi_data.info.version
        rel == pypi_data.releases
        latestFiles == IF latest \in DOMAIN rel THEN rel[latest] ELSE <<>>
        candidates == {v \in DOMAIN rel :
                          /\ v # Unparsable
                          /\ InSpec(v, specifier)
                          /\ v \notin PreReleases
                          /\ FirstPure(rel[v]) # <<>>}
    IN IF InSpec(latest, specifier) /\ FirstPure(latestFiles) # <<>>
       THEN [found |-> TRUE, version |-> latest,
             wheel_info |-> FirstPure(latestFiles)[1]]
       ELSE IF candidates = {} THEN NoVersion
       ELSE LET best == CHOOSE v \in candidates : \A w \in candidates : w <= v
            IN [found |-> TRUE, version |-> best,
                wheel_info |-> FirstPure(rel[best])[1]]

\* The wheels the two unlink loops of download_pypi_package remove.
StaleWheels(name, files) ==
    {f \in files : GlobMatches(PkgUnder(name), f)
                   \/ GlobMatches(_pyodide_normalize(name), f)}

\* build_git_wheel's verdict on what pip produced: None unless pip
\* succeeded, a wheel exists, and it is a pure-Python wheel by file name or,
\* failing that, is not contradicted by its WHEEL metadata.
GitAccepted(o) ==
    /\ o.returncode = 0
    /\ o.wheels
    /\ \/ o.tag \in PureTags
       \/ ~(o.wheelMeta # "none" /\ o.wheelMeta \notin PureTags)

-----------------------------------------------------------------------------
(* resolve_and_download_packages and download_pypi_package *)

Keys == {NameA, NameB, NameC, NameD}

\* The index the runs are made against.
PypiIndex == [k \in Keys |-> PypiData(k)]

NoVisited == [k \in {} |-> 0]
Resolved(v) == [kind |-> "version", v |-> v]
Bundled == [kind |-> "bundled", v |-> 0]

Frame(fn, name, spec, pc, deps) ==
    [fn |-> fn, name |-> name, spec |-> spec, pc |-> pc, version |-> 0,
     wheel |-> Wheel(<<>>, 1, "none"), deps |-> deps]

Top == stack[Len(stack)]
Pop(stk) == SubSeq(stk, 1, Len(stk) - 1)
SetTop(stk, f) == [stk EXCEPT ![Len(stk)] = f]

\* The requirement list's own lines are named by nobody.
TopLevel == <<>>

\* Who named what: <<package key, specifier, key of the declaring package>>.
Naming(deps, by) ==
    {<<_pyodide_normalize(deps[i].name), deps[i].spec, _pyodide_normalize(by)>> :
        i \in 1..Len(deps)}

\* A resolver that keeps no record of what it resolved.
MarkVisitedDropped(pkg_key, version) == visited

\* visited[pkg_key] = version
MarkVisited(pkg_key, version) == (pkg_key :> Resolved(version)) @@ visited

\* The head of download_pypi_package, entered from a caller whose stack is
\* stk: the visited short-circuit, the already-bundled short-circuit, or on
\* to the index.
CallDownload(stk, name, specifier) ==
    LET pkg_key == _pyodide_normalize(name) IN
    IF pkg_key \in DOMAIN visited
    THEN /\ visited' = visited
         /\ stack' = stk
         /\ ret' = "true"
    ELSE IF _pyodide_has_package(lock, name, specifier)
    THEN /\ visited' = MarkVisited(pkg_key, lock.packages[pkg_key].version)
         /\ stack' = stk
         /\ ret' = "true"
    ELSE /\ visited' = visited
         /\ stack' = Append(stk, Frame("pypi", name, specifier, "fetch", <<>>))
         /\ ret' = ret

Running == phase = "run"

\* What no step of the resolver touches.
callVars ==
    <<reqs, reqFile, run, lock0, disk0, errors, tree, netLog, pip_conf, index>>

\* for req_str in requirements: a name[specifier] line.
ResolvePypi ==
    /\ Running /\ stack = <<>> /\ idx <= Len(reqs)
    /\ reqs[idx].kind = "pypi"
    /\ idx' = idx + 1
    /\ named' = named \cup
          {<<_pyodide_normalize(reqs[idx].name), reqs[idx].spec, TopLevel>>}
    /\ CallDownload(<<>>, reqs[idx].name, reqs[idx].spec)
    /\ UNCHANGED <<lock, disk, phase, metaN, asked, dlN, buildN, built, netFail, mainpc>>
    /\ UNCHANGED callVars

\* for req_str in requirements: a line Requirement() cannot parse.
ResolveUnparsable ==
    /\ Running /\ stack = <<>> /\ idx <= Len(reqs)
    /\ reqs[idx].kind = "bad"
    /\ idx' = idx + 1
    /\ UNCHANGED <<lock, disk, visited, stack, phase, ret, metaN, asked, dlN, buildN, built,
                   netFail, named, mainpc>>
    /\ UNCHANGED callVars

\* for req_str in requirements: a git+ line, with build_git_wheel.
ResolveGit ==
    /\ Running /\ stack = <<>> /\ idx <= Len(reqs)
    /\ reqs[idx].kind = "git"
    /\ idx' = idx + 1
    /\ buildN' = buildN + 1
    /\ \E o \in GitOutcomes :
         /\ built' = o
         /\ IF GitAccepted(o)
            THEN LET whl == GitWheel(o.tag)
                     name == whl.dist
                     filtered_deps ==
                        _filter_requires_dist(
                            _extract_wheel_metadata(whl).requires_dist)
                 IN /\ disk' = disk \cup {whl}
                    /\ visited' = MarkVisited(_pyodide_normalize(name), whl.ver)
                    /\ lock' = _register_wheel_in_lock(
                                   _load_pyodide_lock, whl, name, whl.ver,
                                   _extract_wheel_metadata(whl).imports)
                    /\ stack' = <<Frame("git", name, AnySpec, "deps", filtered_deps)>>
                    /\ named' = named \cup Naming(filtered_deps, name)
                    /\ netFail' = netFail
            ELSE /\ netFail' = netFail \cup {<<"build", NameB>>}
                 /\ UNCHANGED <<disk, visited, lock, stack, named>>
    /\ UNCHANGED <<phase, ret, metaN, asked, dlN, mainpc>>
    /\ UNCHANGED callVars

\* pip.conf: the index-url and proxy keys of [global]; "" is a key that is
\* not set (or a file that does not exist).
PypiOrg == "https://pypi.org"
PypiSimple == "https://pypi.org/simple"
Mirror == "https://mirror.example/simple"
ProxyUrl == "http://proxy.example:3128"
NoConf == [index_url |-> "", proxy |-> ""]
Confs == [index_url : {"", PypiSimple, Mirror}, proxy : {"", ProxyUrl}]

\* _get_pypi_index_url: the configured index-url, else https://pypi.org.
_get_pypi_index_url(conf) ==
    IF conf.index_url # "" THEN conf.index_url ELSE PypiOrg

\* _get_pypi_proxy_handler: the configured proxy, "" for None.
_get_pypi_proxy_handler(conf) == conf.proxy

\* "pypi.org" in index_url
OnPypiOrg(index_url) == index_url \in {PypiOrg, PypiSimple}

\* pypi_url of download_pypi_package, without the /pypi/{name}/json path:
\* both branches of the test name pypi.org.
pypi_url(conf) ==
    IF OnPypiOrg(_get_pypi_index_url(conf)) THEN PypiOrg ELSE PypiOrg

\* _pypi_urlopen: the request as it leaves, through the configured proxy.
_pypi_urlopen(url, conf) ==
    [url |-> url, proxy |-> _get_pypi_proxy_handler(conf)]

\* The metadata request and _find_best_version.
FetchMetadata ==
    /\ Running /\ stack # <<>> /\ Top.pc = "fetch"
    /\ LET pkg_key == _pyodide_normalize(Top.name) IN
       /\ metaN' = [metaN EXCEPT ![pkg_key] = @ + 1]
       /\ asked' = asked \cup {_pypi_urlopen(pypi_url(pip_conf), pip_conf)}
       /\ \E ok \in BOOLEAN :
            IF ~ok
            THEN /\ netFail' = netFail \cup {<<"metadata", pkg_key>>}
                 /\ stack' = Pop(stack)
                 /\ ret' = "false"
                 /\ visited' = visited
            ELSE LET best == _find_best_version(index[pkg_key], Top.spec) IN
                 /\ netFail' = netFail
                 /\ IF ~best.found
                    THEN /\ stack' = Pop(stack)
                         /\ ret' = "false"
                         /\ visited' = visited
                    ELSE /\ visited' = MarkVisited(pkg_key, best.version)
                         /\ stack' = SetTop(stack,
                               [Top EXCEPT !.pc = "archive",
                                           !.version = best.version,
                                           !.wheel = best.wheel_info])
                         /\ ret' = ret
    /\ UNCHANGED <<lock, disk, idx, phase, dlN, buildN, built, named, mainpc>>
    /\ UNCHANGED callVars

\* After the wheel is in place: _extract_wheel_metadata,
\* _register_wheel_in_lock, _filter_requires_dist.
Registered ==
    LET filtered_deps ==
            _filter_requires_dist(_extract_wheel_metadata(Top.wheel).requires_dist)
    IN
    /\ lock' = _register_wheel_in_lock(
                   _load_pyodide_lock, Top.wheel, Top.name, Top.version,
                   _extract_wheel_metadata(Top.wheel).imports)
    /\ stack' = SetTop(stack, [Top EXCEPT !.pc = "deps", !.deps = filtered_deps])
    /\ named' = named \cup Naming(filtered_deps, Top.name)
    /\ phase' = phase
    /\ mainpc' = mainpc

\* The wheel is already on disk: no download.
ArchivePresent ==
    /\ Running /\ stack # <<>> /\ Top.pc = "archive"
    /\ Top.wheel \in disk
    /\ Registered
    /\ UNCHANGED <<disk, visited, idx, ret, metaN, asked, dlN, buildN, built, netFail>>
    /\ UNCHANGED callVars

\* Remove the older wheels the globs find, download the new one; download()
\* re-raises, so a failed download ends the whole call, and main() with it.
ArchiveDownload ==
    /\ Running /\ stack # <<>> /\ Top.pc = "archive"
    /\ Top.wheel \notin disk
    /\ dlN' = [dlN EXCEPT ![_pyodide_normalize(Top.name)] = @ + 1]
    /\ \E ok \in BOOLEAN :
         IF ok
         THEN /\ disk' = (disk \ StaleWheels(Top.name, disk)) \cup {Top.wheel}
              /\ Registered
              /\ netFail' = netFail
         ELSE /\ disk' = disk \ StaleWheels(Top.name, disk)
              /\ phase' = "aborted"
              /\ stack' = <<>>
              /\ netFail' = netFail \cup {<<"download", _pyodide_normalize(Top.name)>>}
              /\ mainpc' = IF mainpc = "lib" THEN mainpc ELSE "traceback"
              /\ UNCHANGED <<lock, named>>
    /\ UNCHANGED <<visited, idx, ret, metaN, asked, buildN, built>>
    /\ UNCHANGED callVars

\* for dep_req in filtered_deps: one turn of the loop.
DepStep ==
    /\ Running /\ stack # <<>> /\ Top.pc = "deps" /\ Top.deps # <<>>
    /\ LET dep_req == Head(Top.deps)
           dep_key == _pyodide_normalize(dep_req.name)
           stk == SetTop(stack, [Top EXCEPT !.deps = Tail(Top.deps)])
       IN IF dep_key \in DOMAIN visited
          THEN /\ stack' = stk
               /\ UNCHANGED <<visited, ret>>
          ELSE IF _pyodide_has_package(lock, dep_req.name, dep_req.spec)
          THEN /\ visited' = (dep_key :> Bundled) @@ visited
               /\ stack' = stk
               /\ ret' = ret
          ELSE CallDownload(stk, dep_req.name, dep_req.spec)
    /\ UNCHANGED <<lock, disk, idx, phase, metaN, asked, dlN, buildN, built, netFail, named,
                   mainpc>>
    /\ UNCHANGED callVars

\* The loop is over: download_pypi_package returns True (the git branch
\* just goes on to the next line).
DepsDone ==
    /\ Running /\ stack # <<>> /\ Top.pc = "deps" /\ Top.deps = <<>>
    /\ stack' = Pop(stack)
    /\ ret' = IF Top.fn = "pypi" THEN "true" ELSE ret
    /\ UNCHANGED <<lock, disk, visited, idx, phase, metaN, asked, dlN, buildN, built,
                   netFail, named, mainpc>>
    /\ UNCHANGED callVars

ZeroCount == [k \in Keys |-> 0]

\* The state a call of resolve_and_download_packages starts in.
StartCall ==
    /\ visited' = NoVisited
    /\ stack' = <<>>
    /\ idx' = 1
    /\ phase' = "run"
    /\ ret' = "none"
    /\ lock0' = lock
    /\ disk0' = disk
    /\ metaN' = ZeroCount
    /\ asked' = {}
    /\ dlN' = ZeroCount
    /\ buildN' = 0
    /\ built' = NoBuild
    /\ named' = {}

-----------------------------------------------------------------------------
(* The resolver called on its own, twice in a row with the same list *)

InitResolver ==
    /\ visited = NoVisited
    /\ stack = <<>>
    /\ idx = 1
    /\ ret = "none"
    /\ run = 1
    /\ metaN = ZeroCount
    /\ asked = {}
    /\ dlN = ZeroCount
    /\ buildN = 0
    /\ built = NoBuild
    /\ netFail = {}
    /\ named = {}

InitLib(lists, confs) ==
    /\ \E b \in BaseStates :
         /\ lock = b.lock /\ disk = b.disk
         /\ lock0 = b.lock /\ disk0 = b.disk
    /\ reqs \in lists
    /\ pip_conf \in confs
    /\ reqFile = TRUE
    /\ phase = "run"
    /\ InitResolver
    /\ mainpc = "lib"
    /\ errors = <<>>
    /\ tree = [notebooks |-> 0, files |-> [p \in {} |-> 0]]
    /\ netLog = {}

\* Without a pip.conf.
Init == InitLib(ReqLists, {NoConf}) /\ index = PypiIndex

\* resolve_and_download_packages returns to a caller other than main().
Return ==
    /\ Running /\ stack = <<>> /\ idx > Len(reqs)
    /\ mainpc = "lib"
    /\ phase' = "done"
    /\ UNCHANGED <<lock, disk, visited, stack, idx, ret, metaN, asked, dlN, buildN, built,
                   netFail, named, mainpc>>
    /\ UNCHANGED callVars

\* A second call with the same list, on what the first call left.
Rerun ==
    /\ mainpc = "lib" /\ phase = "done" /\ run = 1
    /\ run' = 2
    /\ StartCall
    /\ UNCHANGED <<lock, disk, netFail, mainpc, reqs, reqFile, errors, tree,
                   netLog, pip_conf, index>>

Next ==
    \/ ResolvePypi
    \/ ResolveUnparsable
    \/ ResolveGit
    \/ FetchMetadata
    \/ ArchivePresent
    \/ ArchiveDownload
    \/ DepStep
    \/ DepsDone
    \/ Return
    \/ Rerun

Spec == Init /\ [][Next]_vars

-----------------------------------------------------------------------------
(* Properties of the resolver *)

HasGitLine == \E i \in 1..Len(reqs) : reqs[i].kind = "git"

\* The packages whose wheels declared a dependency on k in this call.
Declarers(k) == {m[3] : m \in {n \in named : n[1] = k /\ n[3] # TopLevel}}
Diamond(k) == Cardinality(Declarers(k)) >= 2

\* No requirement that named k in this call was met by the lock the call
\* started with.
UnsatisfiedAtStart(k) ==
    \A m \in named : m[1] = k => ~_pyodide_has_package(lock0, k, m[2])

ArchivesOf(k) == {f \in disk : FileKey(f) = k}
EntriesNamed(k) == {j \in DOMAIN lock.packages : lock.packages[j].name = k}

\* C1: when two packages resolved in one call both declare a dependency on
\* k, k's archive is downloaded at most once; and when the lock the call
\* started with met none of the constraints on k and the index answered for
\* k, it is downloaded exactly once and the lock ends with exactly one entry
\* for k, under k.
C1_DiamondOnce ==
    phase = "done" =>
        \A k \in Keys :
            Diamond(k) =>
                /\ dlN[k] <= 1
                /\ (/\ lock.exists
                    /\ UnsatisfiedAtStart(k)
                    /\ <<"metadata", k>> \notin netFail)
                   => /\ dlN[k] = 1
                      /\ EntriesNamed(k) = {k}

C1_Witness ==
    /\ phase = "done"
    /\ Declarers(NameC) = {NameA, NameB}
    /\ lock.exists
    /\ UnsatisfiedAtStart(NameC)
    /\ dlN[NameC] = 1
    /\ EntriesNamed(NameC) = {NameC}

\* C2 (as claimed): a network failure, of a metadata request or of an
\* archive download, never aborts the call.
C2_NetworkFailureIsolated ==
    (\E f \in netFail : f[1] \in {"metadata", "download"}) => phase # "aborted"

\* C5 (as claimed): the archive directory never holds two archives of one
\* normalized package.
C5_OneArchivePerKey ==
    \A f \in disk : \A g \in disk : FileKey(f) = FileKey(g) => f = g

\* The top frame has just resolved a package whose version in the lock the
\* call started with is excluded by the frame's constraint.
Upgraded ==
    /\ Running /\ stack # <<>> /\ Top.fn = "pypi" /\ Top.pc = "deps"
    /\ lock0.exists
    /\ _pyodide_normalize(Top.name) \in DOMAIN lock0.packages
    /\ ~Satisfies(lock0.packages[_pyodide_normalize(Top.name)].version, Top.spec)

\* C6 (as claimed): an upgrade downloads one archive, removes the prior
\* archives of the package, replaces the entry, and leaves one archive.
C6_Upgrade ==
    Upgraded =>
        LET k == _pyodide_normalize(Top.name) IN
        /\ dlN[k] = 1
        /\ lock.packages[k].version = Top.version
        /\ ArchivesOf(k) = {Top.wheel}

\* The normalized keys of the name[specifier] lines of the list.
TopLevelKeys ==
    {_pyodide_normalize(reqs[i].name) : i \in {j \in 1..Len(reqs) : reqs[j].kind = "pypi"}}

\* C7 (as claimed): a second call with the same list, after a first call
\* that met no failure and resolved every line, makes no network call and
\* leaves the lock as it is.
C7_Idempotent ==
    (/\ run = 2 /\ phase = "done"
     /\ lock.exists /\ netFail = {} /\ ~HasGitLine
     /\ TopLevelKeys \subseteq DOMAIN lock0.packages)
    => /\ metaN = ZeroCount
       /\ dlN = ZeroCount
       /\ buildN = 0
       /\ lock = lock0

\* C8 (as claimed): after a call, the version recorded for a package meets
\* the constraint of every requirement that named it in that call.
C8_Consistent ==
    (phase = "done" /\ lock.exists /\ netFail = {})
    => \A m \in named :
          (m[1] \in DOMAIN visited /\ m[1] \in DOMAIN lock.packages)
          => Satisfies(lock.packages[m[1]].version, m[2])

-----------------------------------------------------------------------------
(* The output tree: files of the export and of the downloaded assets *)

\* Most defects an exported tree is drawn with.
MaxDefects == 2

\* A URL a file's text holds.
Url(scheme, domain, path) == [scheme |-> scheme, domain |-> domain, path |-> path]

\* _FORBIDDEN_DOMAINS
_FORBIDDEN_DOMAINS ==
    <<"cdn.jsdelivr.net", "fonts.googleapis.com", "fonts.gstatic.com",
      "wasm.marimo.app">>

\* _ALLOWED_CDN_URLS, as <<domain, path prefix>>
_ALLOWED_CDN_URLS ==
    {<<"cdn.jsdelivr.net", "npm/mathjax-full@">>,
     <<"cdn.jsdelivr.net", "npm/lucide-static@">>}

UrlPyodide == Url("https", "cdn.jsdelivr.net", "pyodide/")
UrlKatex == Url("https", "cdn.jsdelivr.net", "npm/katex@")
UrlMathjax == Url("https", "cdn.jsdelivr.net", "npm/mathjax-full@")
UrlEmoji == Url("https", "cdn.jsdelivr.net", "npm/emoji@")
UrlFonts == Url("https", "fonts.googleapis.com", "css2?family=Fira+Mono")
UrlGstatic == Url("https", "fonts.gstatic.com", "")
UrlLock == Url("https", "wasm.marimo.app", "pyodide-lock.json")
UrlWasmApi == Url("https", "wasm.marimo.app", "api/")
UrlHttp == Url("http", "cdn.jsdelivr.net", "npm/emoji@")

\* The replacements of patch_cdn_urls: whether one of them rewrites the URL
\* to a local path.
Replaced(u) ==
    /\ u.scheme = "https"
    /\ \/ u.domain \in {"fonts.googleapis.com", "fonts.gstatic.com"}
       \/ u.domain = "cdn.jsdelivr.net" /\ u.path \in {"pyodide/", "npm/katex@"}
       \/ u.domain = "wasm.marimo.app" /\ u.path = "pyodide-lock.json"

\* A file: what its name matches (kind), its suffix, the URLs in its text,
\* the patterns its text holds (feats) and the snippets injected into it,
\* in the order of the text (ins).
File(kind, suffix, urls, feats) ==
    [kind |-> kind, suffix |-> suffix, urls |-> urls, feats |-> feats,
     ins |-> <<>>]

\* A path: the directory under the output directory ("" for the root) and
\* the file's path below it.
Path(top, name) == <<top, name>>

NoFiles == [p \in {} |-> 0]
EmptyTree == [notebooks |-> 0, files |-> NoFiles]

\* What "marimo export html-wasm <nb> -o <out>" writes for one notebook when
\* every pattern of the patches is where the patches expect it.
Exported(out) ==
    (Path(out, "index.html") :>
        File("index", "html", {UrlFonts, UrlGstatic, UrlKatex}, {"</marimo-code>"}))
    @@ (Path(out, "assets/useNotebookActions-1.js") :>
        File("useNotebookActions", "js", {}, {"publish:pattern"}))
    @@ (Path(out, "assets/mode-1.js") :>
        File("mode", "js", {}, {"store", "modeAtom", "export{"}))
    @@ (Path(out, "assets/layout-1.js") :>
        File("layout", "js", {},
             {"selectedLayout:vertical", "store", "Promise.all", "valueAtom",
              "export{", ".serializeLayout(", "function(){"}))
    @@ (Path(out, "assets/share-1.js") :>
        File("share", "js", {}, {"baseUrl:marimo.app", "shareFn", "lz"}))
    @@ (Path(out, "assets/worker-1.js") :>
        File("chunk", "js", {UrlPyodide, UrlLock, UrlMathjax}, {}))
    @@ (Path(out, "assets/worker-1.js.map") :>
        File("chunk", "map", {UrlEmoji}, {}))

\* The directories export_notebooks writes to: the root for one notebook,
\* one directory per notebook otherwise.
NotebookDirs(n) == IF n = 1 THEN {""} ELSE {"nb1", "nb2"}

RECURSIVE Merge(_, _)
\* The files of all of a set of directories.
Merge(dirs, files) ==
    IF dirs = {} THEN files
    ELSE LET d == CHOOSE x \in dirs : TRUE
         IN Merge(dirs \ {d}, Exported(d) @@ files)

GoodTree(n) == [notebooks |-> n, files |-> Merge(NotebookDirs(n), NoFiles)]

\* One way an export differs from what the patches expect.
Defect(op, path, arg) == [op |-> op, path |-> path, arg |-> arg]

\* A defect applied: a pattern is not in the file, the file holds one more
\* URL, the chunk is not there, or the chunk has another name.
Damage(files, d) ==
    CASE d.path \notin DOMAIN files -> files
      [] d.op = "drop" ->
            [files EXCEPT ![d.path].feats = @ \ {d.arg}]
      [] d.op = "url" ->
            [files EXCEPT ![d.path].urls = @ \cup {d.arg}]
      [] d.op = "rm" ->
            [p \in DOMAIN files \ {d.path} |-> files[p]]
      [] d.op = "rename" ->
            [files EXCEPT ![d.path].kind = d.arg]
      [] OTHER -> files

RECURSIVE DamageAll(_, _)
DamageAll(files, ds) ==
    IF ds = {} THEN files
    ELSE LET d == CHOOSE x \in ds : TRUE
         IN DamageAll(Damage(files, d), ds \ {d})

\* Every single defect of an export of n notebooks.
Defects(n) ==
    LET files == GoodTree(n).files
        js == {p \in DOMAIN files : files[p].suffix = "js"}
    IN UNION {{Defect("drop", p, f) : f \in files[p].feats} : p \in DOMAIN files}
       \cup {Defect("url", p, u) : p \in js, u \in {UrlEmoji, UrlWasmApi, UrlHttp}}
       \cup {Defect("rm", p, "") : p \in js}
       \cup {Defect("rename", p, "chunk") : p \in js}

RECURSIVE SubsetsUpTo(_, _)
\* The subsets of S of at most k elements.
SubsetsUpTo(S, k) ==
    IF k = 0 THEN {{}}
    ELSE LET smaller == SubsetsUpTo(S, k - 1)
         IN smaller \cup {s \cup {x} : s \in smaller, x \in S}

\* The exports of n notebooks with at most MaxDefects of the defects ds.
TreesWith(n, ds) ==
    {[notebooks |-> n, files |-> DamageAll(GoodTree(n).files, d)] :
        d \in SubsetsUpTo(ds, MaxDefects)}

Trees(n) == TreesWith(n, Defects(n))

\* The defects the runs of the whole pipeline are drawn with: one that a
\* patch reports, one that two patches and the verifier report, one that
\* only the verifier reports.
MainDefects ==
    {Defect("drop", Path("", "assets/mode-1.js"), "store"),
     Defect("drop", Path("", "assets/share-1.js"), "shareFn"),
     Defect("url", Path("", "assets/worker-1.js"), UrlEmoji)}

-----------------------------------------------------------------------------
(* The patch functions, each over the files and the error list *)

NoPath == Path("", "")

\* One (step, message) pair of _patch_errors; the message names what was
\* not found and where.
Err(step, what, path) == [step |-> step, what |-> what, path |-> path]

\* patch_error(step, message)
patch_error(errs, step, what, path) == Append(errs, Err(step, what, path))

RECURSIVE SetToSeq(_)
\* The paths of a set in the order a directory walk yields them.
SetToSeq(S) ==
    IF S = {} THEN <<>>
    ELSE LET x == CHOOSE y \in S : TRUE IN <<x>> \o SetToSeq(S \ {x})

RECURSIVE Flatten(_)
Flatten(ss) == IF ss = <<>> THEN <<>> ELSE Head(ss) \o Flatten(Tail(ss))

\* The errors a loop over the files ps records, given those of each file.
LoopErrors(ps, errsOf) ==
    LET order == SetToSeq(ps)
    IN Flatten([i \in 1..Len(order) |-> errsOf[order[i]]])

\* Path(output_dir).rglob(pattern), by what the pattern selects.
Glob(files, kind) == {p \in DOMAIN files : files[p].kind = kind}
Scanned == {"js", "html", "mjs", "css"}
VendorDirs == {"pyodide", "vendor", "fonts"}

\* --output-dir, at its default.
OutputDir == "_site"

\* The words of VendorDirs that a text holds as a substring, for the texts
\* the paths of the model are made of; no other text holds one.
WordsIn(text) ==
    CASE text \in {"pyodide", "pyodide.js"} -> {"pyodide"}
      [] text = "vendor" -> {"vendor"}
      [] text \in {"fonts", "fonts_demo"} -> {"fonts"}
      [] OTHER -> {}

\* patch_cdn_urls: "pyodide" in str(path) or "vendor" in str(path) or
\* "fonts" in str(path), where str(path) is output_dir/top/name.
CdnSkips(p) ==
    (WordsIn(OutputDir) \cup WordsIn(p[1]) \cup WordsIn(p[2])) \cap VendorDirs # {}

\* verify_build: the path relative to the output directory starts with
\* "pyodide/", "vendor/" or "fonts/".
VerifySkips(p) == p[1] \in VendorDirs

\* patch_cdn_urls: every replacement over every file outside the vendor
\* directories; an error when no file changed.
BaseUrlReplaced(feats) ==
    IF "baseUrl:marimo.app" \in feats
    THEN (feats \ {"baseUrl:marimo.app"}) \cup {"baseUrl:location"}
    ELSE feats

CdnPatched(f) ==
    [f EXCEPT !.urls = {u \in @ : ~Replaced(u)}, !.feats = BaseUrlReplaced(@)]

PatchCdnUrls(s) ==
    LET files == s.files
        mine == {p \in DOMAIN files :
                    files[p].suffix \in Scanned /\ ~CdnSkips(p)}
        after == [p \in DOMAIN files |->
                    IF p \in mine THEN CdnPatched(files[p]) ELSE files[p]]
        patched_count == Cardinality({p \in mine : after[p] # files[p]})
    IN [files |-> after,
        errs |-> IF patched_count = 0
                 THEN patch_error(s.errs, "cdn-urls", "no file patched", NoPath)
                 ELSE s.errs]

\* The substitution of patch_publish_button: hidden:<expr> becomes
\* hidden:!0, and the text changes when <expr> was something else.
PublishHidden(f) ==
    IF "publish:pattern" \in f.feats
    THEN [f EXCEPT !.feats = (@ \ {"publish:pattern"}) \cup {"publish:hidden"}]
    ELSE f

HasPublishText(f) ==
    f.feats \cap {"publish:pattern", "publish:hidden", "publish:text"} # {}

\* patch_publish_button: the useNotebookActions chunks, then, when none was
\* patched, every .js file that holds the label.
PatchPublishButton(s) ==
    LET files == s.files
        mine == Glob(files, "useNotebookActions")
        first == [p \in DOMAIN files |->
                    IF p \in mine THEN PublishHidden(files[p]) ELSE files[p]]
        patched1 == {p \in mine : first[p] # files[p]}
        errs1 == s.errs \o LoopErrors(mine,
                    [p \in mine |->
                        IF p \in patched1 THEN <<>>
                        ELSE <<Err("publish-button", "regex did not match", p)>>])
        broader == {p \in DOMAIN files :
                      files[p].suffix = "js" /\ HasPublishText(files[p])}
        second == [p \in DOMAIN files |->
                    IF p \in broader THEN PublishHidden(first[p]) ELSE first[p]]
        patched2 == {p \in broader : second[p] # first[p]}
    IN IF patched1 # {}
       THEN [files |-> first, errs |-> errs1]
       ELSE [files |-> second,
             errs |-> IF patched2 = {}
                      THEN patch_error(errs1, "publish-button",
                                       "no file patched", NoPath)
                      ELSE errs1]

\* _find_jotai_store(text)
_find_jotai_store(f) == "store" \in f.feats

\* The first pattern of a list that the file lacks, or "" when it has all.
RECURSIVE FirstMissing(_, _)
FirstMissing(f, wanted) ==
    IF wanted = <<>> THEN ""
    ELSE IF Head(wanted) \in f.feats THEN FirstMissing(f, Tail(wanted))
    ELSE Head(wanted)

\* patch_mode_url_sync over one mode-*.js: the subscription goes in before
\* export{ when the store, the mode atom and export{ are all found.
ModeWants == <<"store", "modeAtom", "export{">>
ModePatched(f) ==
    IF FirstMissing(f, ModeWants) = ""
    THEN [f EXCEPT !.ins = Append(@, "view-as subscription")]
    ELSE f

\* A patch_mode_url_sync that gives up on every file once one file fails.
PatchModeAborting(s) ==
    LET files == s.files
        mine == Glob(files, "mode")
        failed == {p \in mine : FirstMissing(files[p], ModeWants) # ""}
    IN IF failed = {}
       THEN [files |-> [p \in DOMAIN files |->
                          IF p \in mine THEN ModePatched(files[p]) ELSE files[p]],
             errs |-> s.errs]
       ELSE [files |-> files,
             errs |-> patch_error(s.errs, "mode-url-sync", "no file patched",
                                  NoPath)]

PatchModeUrlSync(s) ==
    LET files == s.files
        mine == Glob(files, "mode")
        patched == {p \in mine : FirstMissing(files[p], ModeWants) = ""}
    IN [files |-> [p \in DOMAIN files |->
                     IF p \in mine THEN ModePatched(files[p]) ELSE files[p]],
        errs |-> LET errs1 == s.errs \o LoopErrors(mine,
                        [p \in mine |->
                            IF p \in patched THEN <<>>
                            ELSE <<Err("mode-url-sync",
                                       FirstMissing(files[p], ModeWants), p)>>])
                 IN IF patched = {}
                    THEN patch_error(errs1, "mode-url-sync", "no file patched",
                                     NoPath)
                    ELSE errs1]

\* patch_layout_url_sync over one layout-*.js: the default is read from
\* the URL and the subscription goes in before export{, and the file is
\* written only when every pattern was found.
LayoutWants ==
    <<"selectedLayout:vertical", "store", "Promise.all", "valueAtom", "export{">>
\* A patch that writes the file after each replacement it made.
LayoutPatchedPartial(f) ==
    IF FirstMissing(f, LayoutWants) = ""
    THEN [f EXCEPT !.feats = (@ \ {"selectedLayout:vertical"})
                              \cup {"selectedLayout:searchParams"},
                   !.ins = Append(@, "layout subscription")]
    ELSE IF "selectedLayout:vertical" \in f.feats
    THEN [f EXCEPT !.feats = (@ \ {"selectedLayout:vertical"})
                              \cup {"selectedLayout:searchParams"}]
    ELSE f

LayoutPatched(f) ==
    IF FirstMissing(f, LayoutWants) = ""
    THEN [f EXCEPT !.feats = (@ \ {"selectedLayout:vertical"})
                              \cup {"selectedLayout:searchParams"},
                   !.ins = Append(@, "layout subscription")]
    ELSE f

PatchLayoutUrlSync(s) ==
    LET files == s.files
        mine == Glob(files, "layout")
        patched == {p \in mine : FirstMissing(files[p], LayoutWants) = ""}
    IN [files |-> [p \in DOMAIN files |->
                     IF p \in mine THEN LayoutPatched(files[p]) ELSE files[p]],
        errs |-> LET errs1 == s.errs \o LoopErrors(mine,
                        [p \in mine |->
                            IF p \in patched THEN <<>>
                            ELSE <<Err("layout-url-sync",
                                       FirstMissing(files[p], LayoutWants), p)>>])
                 IN IF patched = {}
                    THEN patch_error(errs1, "layout-url-sync",
                                     "no file patched", NoPath)
                    ELSE errs1]

\* A part 1 whose share-function pattern wants the marimo.app default.
SharePatchedNeedsDefault(f) ==
    IF "shareFn" \in f.feats /\ "baseUrl:marimo.app" \in f.feats
    THEN [f EXCEPT !.feats = BaseUrlReplaced(@),
                   !.ins = Append(@, "Notebook still loading fallback")]
    ELSE f

\* Part 1 of patch_wasm_share_links over one share-*.js: with the share
\* function found, the baseUrl default is replaced and the fallback chain,
\* which ends in the "Notebook still loading" throw, goes in before return.
SharePatched(f) ==
    IF "shareFn" \in f.feats
    THEN [f EXCEPT !.feats = BaseUrlReplaced(@),
                   !.ins = Append(@, "Notebook still loading fallback")]
    ELSE f

\* The notebook pages of part 2: the root page for one notebook, else every
\* index.html below a directory of the output directory.
NotebookHtmls(files, single_notebook) ==
    IF single_notebook THEN {Path("", "index.html")}
    ELSE {p \in Glob(files, "index") : p[1] # ""}

HandlerInjected(f) ==
    IF "data-marimo-share" \notin f.feats /\ "</marimo-code>" \in f.feats
    THEN [f EXCEPT !.feats = @ \cup {"data-marimo-share"}]
    ELSE f

PatchWasmShareLinks(s, single_notebook) ==
    LET files == s.files
        shares == Glob(files, "share")
        htmls == NotebookHtmls(files, single_notebook)
        after == [p \in DOMAIN files |->
                    IF p \in shares THEN SharePatched(files[p])
                    ELSE IF p \in htmls THEN HandlerInjected(files[p])
                    ELSE files[p]]
        patched == {p \in shares \cup htmls : after[p] # files[p]}
        errs1 == s.errs \o LoopErrors(shares,
                    [p \in shares |->
                        IF p \in patched THEN <<>>
                        ELSE <<Err("share-links", "shareFn", p)>>])
        errs2 == errs1 \o LoopErrors(htmls,
                    [p \in htmls |->
                        IF p \in patched \/ "data-marimo-share" \in files[p].feats
                        THEN <<>>
                        ELSE <<Err("share-links", "</marimo-code>", p)>>])
    IN [files |-> after,
        errs |-> IF patched = {}
                 THEN patch_error(errs2, "share-links", "no file patched", NoPath)
                 ELSE errs2]

\* patch_share_layout_embed: part A exposes getSerializedLayout in each
\* layout-*.js, part B injects the embedding after the throw that
\* patch_wasm_share_links put into each share-*.js.
EmbedWants == <<".serializeLayout(", "function(){", "export{">>
Has(f, snippet) == \E i \in 1..Len(f.ins) : f.ins[i] = snippet

LayoutExposed(f) ==
    IF FirstMissing(f, EmbedWants) = ""
    THEN [f EXCEPT !.ins = Append(@, "__marimoGetSerializedLayout global")]
    ELSE f

ShareEmbedded(f) ==
    IF Has(f, "Notebook still loading fallback")
    THEN [f EXCEPT !.ins = Append(@, "__marimoGetSerializedLayout embed")]
    ELSE f

PatchShareLayoutEmbed(s) ==
    LET files == s.files
        layouts == Glob(files, "layout")
        shares == Glob(files, "share")
        errsA == s.errs \o LoopErrors(layouts,
                    [p \in layouts |->
                        IF FirstMissing(files[p], EmbedWants) = "" THEN <<>>
                        ELSE <<Err("layout-embed",
                                   FirstMissing(files[p], EmbedWants), p)>>])
    IN [files |-> [p \in DOMAIN files |->
                     IF p \in layouts THEN LayoutExposed(files[p])
                     ELSE IF p \in shares THEN ShareEmbedded(files[p])
                     ELSE files[p]],
        errs |-> errsA \o LoopErrors(shares,
                    [p \in shares |->
                        IF Has(files[p], "Notebook still loading fallback")
                        THEN <<>>
                        ELSE <<Err("layout-embed", "error-throw pattern", p)>>])]

-----------------------------------------------------------------------------
(* verify_build *)

\* _REQUIRED_MARKERS: (glob, substring, description)
_REQUIRED_MARKERS ==
    << [glob |-> "share", marker |-> "Notebook still loading",
        desc |-> "share-link error fallback"],
       [glob |-> "share", marker |-> "__marimoGetSerializedLayout",
        desc |-> "layout embed in share"],
       [glob |-> "layout", marker |-> "__marimoGetSerializedLayout",
        desc |-> "layout global exposure"],
       [glob |-> "mode", marker |-> "view-as", desc |-> "mode URL sync"],
       [glob |-> "layout", marker |-> "searchParams", desc |-> "layout URL sync"],
       [glob |-> "index", marker |-> "data-marimo-share",
        desc |-> "share-link hash handler"] >>

\* The patterns and snippets whose text holds a substring.
Mentions(marker) ==
    CASE marker = "Notebook still loading" -> {"Notebook still loading fallback"}
      [] marker = "__marimoGetSerializedLayout" ->
            {"__marimoGetSerializedLayout global", "__marimoGetSerializedLayout embed"}
      [] marker = "view-as" -> {"view-as subscription"}
      [] marker = "searchParams" ->
            {"selectedLayout:searchParams", "layout subscription",
             "view-as subscription"}
      [] marker = "data-marimo-share" -> {"data-marimo-share"}
      [] OTHER -> {}

\* marker in text
TextHas(f, marker) ==
    \E t \in Mentions(marker) : t \in f.feats \/ Has(f, t)

\* any(allowed in url for allowed in _ALLOWED_CDN_URLS)
AllowedUrl(u) == <<u.domain, u.path>> \in _ALLOWED_CDN_URLS

\* The forbidden-domain scan of one file: one violation per domain, for the
\* first https:// occurrence of the domain that the allow-list does not pass.
Violates(f, domain) ==
    \E u \in f.urls : u.scheme = "https" /\ u.domain = domain /\ ~AllowedUrl(u)

FileViolations(f, p) ==
    Flatten([i \in 1..Len(_FORBIDDEN_DOMAINS) |->
                IF Violates(f, _FORBIDDEN_DOMAINS[i])
                THEN <<Err("verify-cdn", _FORBIDDEN_DOMAINS[i], p)>>
                ELSE <<>>])

\* The files the scan reads: the four suffixes, outside pyodide/, vendor/
\* and fonts/.
VerifyScans(files) ==
    {p \in DOMAIN files : files[p].suffix \in Scanned /\ ~VerifySkips(p)}

\* A scan that reports nothing.
VerifyCdnNothing(files) == <<>>

VerifyCdn(files) ==
    LET scans == VerifyScans(files)
    IN LoopErrors(scans, [p \in scans |-> FileViolations(files[p], p)])

\* "https://marimo.app" left as the default of a share-*.js
VerifyShareDefault(files) ==
    LET shares == Glob(files, "share")
    IN LoopErrors(shares,
          [p \in shares |->
              IF "baseUrl:marimo.app" \in files[p].feats
              THEN <<Err("verify-cdn", "https://marimo.app", p)>>
              ELSE <<>>])

\* A marker check that reports nothing.
MarkerErrorsNever(files, rule) == <<>>

\* One rule of the marker check: an error when no file matches the glob or
\* no matching file holds the marker.
MarkerErrors(files, rule) ==
    IF \E p \in Glob(files, rule.glob) : TextHas(files[p], rule.marker)
    THEN <<>>
    ELSE <<Err("verify-markers", rule.desc, NoPath)>>

VerifyMarkers(files) ==
    Flatten([i \in 1..Len(_REQUIRED_MARKERS) |->
                MarkerErrors(files, _REQUIRED_MARKERS[i])])

\* The publish check: a .js file whose menu item is not hidden:!0
VerifyPublish(files) ==
    LET js == {p \in DOMAIN files : files[p].suffix = "js"}
    IN LoopErrors(js,
          [p \in js |->
              IF "publish:pattern" \in files[p].feats
              THEN <<Err("verify-publish", "hidden", p)>>
              ELSE <<>>])

RECURSIVE MissingPackages(_, _)
\* The loop of verify_build over the requirement lines: git+ lines are
\* skipped, a line that does not parse is passed over, a name whose key is
\* not in the lock is an error.
MissingPackages(lines, packages) ==
    IF lines = <<>> THEN <<>>
    ELSE LET line == Head(lines)
             rest == MissingPackages(Tail(lines), packages)
         IN IF line.kind = "pypi" /\ _pyodide_normalize(line.name) \notin packages
            THEN <<Err("verify-packages", "not in pyodide-lock.json", NoPath)>>
                 \o rest
            ELSE rest

\* A verify_build without its look at the lock.
VerifyPackagesSkipped(lock_data, exists, lines) == <<>>

\* The verify-packages errors of verify_build.
VerifyPackages(lock_data, exists, lines) ==
    IF ~lock_data.exists
    THEN <<Err("verify-packages", "pyodide-lock.json not found", NoPath)>>
    ELSE IF ~exists THEN <<>>
    ELSE MissingPackages(lines, DOMAIN lock_data.packages)

\* The errors verify_build records for the tree, in the order of its scans.
VerifyTree(files) ==
    VerifyCdn(files) \o VerifyShareDefault(files) \o VerifyMarkers(files)
    \o VerifyPublish(files)

-----------------------------------------------------------------------------
(* main() *)

MarimoBase == <<"m", "a", "r", "i", "m", "o", "-", "b", "a", "s", "e">>
MarimoBaseWheel == Wheel(PkgUnder(MarimoBase), 1, "py3-none-any")

\* What the steps of main() outside the resolver leave alone.
resolverState ==
    <<visited, stack, idx, phase, ret, run, lock0, disk0, metaN, asked, dlN,
      buildN, built, named, reqs, reqFile, pip_conf, index>>

NotebookCounts == {0, 1, 2}

\* export_notebooks: sys.exit(1) without notebooks; else one export per
\* notebook, whose failure raises. The exports are drawn from choices.
export_notebooks(choices) ==
    /\ mainpc = "export_notebooks"
    /\ \E n \in NotebookCounts :
         IF n = 0
         THEN /\ mainpc' = "exit_1"
              /\ UNCHANGED <<tree, netFail>>
         ELSE \/ /\ mainpc' = "traceback"
                 /\ netFail' = netFail \cup {<<"export", <<>>>>}
                 /\ tree' = tree
              \/ /\ mainpc' = "download_assets"
                 /\ tree' \in choices[n]
                 /\ netFail' = netFail
    /\ UNCHANGED <<lock, disk, errors, netLog>>
    /\ UNCHANGED resolverState

\* The files download_pyodide, download_google_fonts and download_katex add.
VendorFiles ==
    (Path("pyodide", "pyodide.js") :> File("chunk", "js", {UrlPyodide}, {}))
    @@ (Path("vendor", "katex/katex.min.js") :> File("chunk", "js", {UrlKatex}, {}))

\* Steps 2 to 5: detect_pyodide_version exits 1 when it finds no version,
\* a failed download raises.
download_assets ==
    /\ mainpc = "download_assets"
    /\ \/ /\ mainpc' = "exit_1"
          /\ UNCHANGED <<tree, netFail>>
       \/ /\ mainpc' = "traceback"
          /\ netFail' = netFail \cup {<<"assets", <<>>>>}
          /\ tree' = tree
       \/ /\ mainpc' = "patch_cdn_urls"
          /\ tree' = [tree EXCEPT !.files = VendorFiles @@ @]
          /\ netFail' = netFail
    /\ UNCHANGED <<lock, disk, errors, netLog>>
    /\ UNCHANGED resolverState

\* A patch function called by main(): r is what it makes of the files and
\* of the error list.
PatchStep(pc, r, next) ==
    /\ mainpc = pc
    /\ tree' = [tree EXCEPT !.files = r.files]
    /\ errors' = r.errs
    /\ mainpc' = next
    /\ UNCHANGED <<lock, disk, netFail, netLog>>
    /\ UNCHANGED resolverState

Now == [files |-> tree.files, errs |-> errors]
single_notebook == tree.notebooks = 1

patch_cdn_urls ==
    PatchStep("patch_cdn_urls", PatchCdnUrls(Now), "patch_publish_button")
patch_publish_button ==
    PatchStep("patch_publish_button", PatchPublishButton(Now), "patch_mode_url_sync")
patch_mode_url_sync ==
    PatchStep("patch_mode_url_sync", PatchModeUrlSync(Now), "patch_layout_url_sync")
patch_layout_url_sync ==
    PatchStep("patch_layout_url_sync", PatchLayoutUrlSync(Now),
              "patch_wasm_share_links")
patch_wasm_share_links ==
    PatchStep("patch_wasm_share_links", PatchWasmShareLinks(Now, single_notebook),
              "patch_share_layout_embed")
patch_share_layout_embed ==
    PatchStep("patch_share_layout_embed", PatchShareLayoutEmbed(Now),
              "checkpoint_1")

\* A checkpoint that never exits.
CheckPatchErrorsNever(errs) == FALSE

\* check_patch_errors(): sys.exit(1) when the list is not empty.
check_patch_errors(errs) == errs # <<>>

\* The checkpoint before the downloads.
Checkpoint1 ==
    /\ mainpc = "checkpoint_1"
    /\ mainpc' = IF check_patch_errors(errors) THEN "exit_1"
                 ELSE "download_marimo_base"
    /\ UNCHANGED <<lock, disk, netFail, errors, tree, netLog>>
    /\ UNCHANGED resolverState

\* download_marimo_base: nothing when the wheel is there; else the direct
\* download, else pip download, else a recorded error; then the lock gains
\* marimo-base unless it has it.
download_marimo_base ==
    /\ mainpc = "download_marimo_base"
    /\ mainpc' = "download_wasm_extras"
    /\ netLog' = netLog \cup {"download_marimo_base"}
    /\ \E got \in {"download", "pip", "failed"} :
         IF MarimoBaseWheel \in disk
         THEN UNCHANGED <<lock, disk, errors>>
         ELSE IF got = "failed"
         THEN /\ errors' = patch_error(errors, "marimo-base",
                                       "pip download failed", NoPath)
              /\ UNCHANGED <<lock, disk>>
         ELSE /\ disk' = disk \cup {MarimoBaseWheel}
              /\ lock' = IF lock.exists /\ MarimoBase \notin DOMAIN lock.packages
                         THEN _register_wheel_in_lock(lock, MarimoBaseWheel,
                                                      MarimoBase, 1,
                                                      {<<"m", "a", "r", "i", "m", "o">>})
                         ELSE lock
              /\ errors' = errors
    /\ UNCHANGED <<netFail, tree>>
    /\ UNCHANGED resolverState

\* download_wasm_extras: nothing without the file or with an empty one,
\* else resolve_and_download_packages starts.
download_wasm_extras ==
    /\ mainpc = "download_wasm_extras"
    /\ IF ~reqFile \/ reqs = <<>>
       THEN /\ mainpc' = "create_index_page"
            /\ UNCHANGED <<visited, stack, idx, phase, ret, lock0, disk0,
                           metaN, asked, dlN, buildN, built, named>>
       ELSE /\ mainpc' = "resolving"
            /\ StartCall
    /\ netLog' = netLog \cup {"download_wasm_extras"}
    /\ UNCHANGED <<lock, disk, reqs, reqFile, run, netFail, errors, tree,
                   pip_conf, index>>

\* resolve_and_download_packages returns to main().
ExtrasDone ==
    /\ mainpc = "resolving"
    /\ Running /\ stack = <<>> /\ idx > Len(reqs)
    /\ phase' = "done"
    /\ mainpc' = "create_index_page"
    /\ UNCHANGED <<lock, disk, visited, stack, idx, ret, metaN, asked, dlN, buildN, built,
                   netFail, named>>
    /\ UNCHANGED callVars

\* Steps 7 to 9: of these only create_index_page writes a scanned file, the
\* page that lists the notebooks when there are several.
create_index_page ==
    /\ mainpc = "create_index_page"
    /\ tree' = IF tree.notebooks <= 1 THEN tree
               ELSE [tree EXCEPT !.files =
                        (Path("", "index.html") :> File("index", "html", {}, {}))
                        @@ @]
    /\ mainpc' = "verify_build"
    /\ UNCHANGED <<lock, disk, netFail, errors, netLog>>
    /\ UNCHANGED resolverState

verify_build ==
    /\ mainpc = "verify_build"
    /\ errors' = errors \o VerifyTree(tree.files)
                        \o VerifyPackages(lock, reqFile, reqs)
    /\ mainpc' = "checkpoint_2"
    /\ UNCHANGED <<lock, disk, netFail, tree, netLog>>
    /\ UNCHANGED resolverState

\* The checkpoint after verification, then the summary.
Checkpoint2 ==
    /\ mainpc = "checkpoint_2"
    /\ mainpc' = IF check_patch_errors(errors) THEN "exit_1" ELSE "exit_0"
    /\ UNCHANGED <<lock, disk, netFail, errors, tree, netLog>>
    /\ UNCHANGED resolverState

InitMain ==
    /\ \E b \in BaseStates :
         /\ lock = b.lock /\ disk = b.disk
         /\ lock0 = b.lock /\ disk0 = b.disk
    /\ \/ reqFile = TRUE /\ reqs \in ReqLists
       \/ reqFile = FALSE /\ reqs = <<>>
    /\ phase = "idle"
    /\ pip_conf = NoConf
    /\ index = PypiIndex
    /\ InitResolver
    /\ mainpc = "export_notebooks"
    /\ errors = <<>>
    /\ tree = EmptyTree
    /\ netLog = {}

\* The exports the runs of the whole pipeline are drawn from.
MainTrees == [n \in {1, 2} |-> IF n = 1 THEN TreesWith(1, MainDefects) ELSE {GoodTree(2)}]

ExportMain == export_notebooks(MainTrees)

NextMain ==
    \/ ExportMain
    \/ download_assets
    \/ patch_cdn_urls
    \/ patch_publish_button
    \/ patch_mode_url_sync
    \/ patch_layout_url_sync
    \/ patch_wasm_share_links
    \/ patch_share_layout_embed
    \/ Checkpoint1
    \/ download_marimo_base
    \/ download_wasm_extras
    \/ ResolvePypi
    \/ ResolveUnparsable
    \/ ResolveGit
    \/ FetchMetadata
    \/ ArchivePresent
    \/ ArchiveDownload
    \/ DepStep
    \/ DepsDone
    \/ ExtrasDone
    \/ create_index_page
    \/ verify_build
    \/ Checkpoint2

SpecMain == InitMain /\ [][NextMain]_vars

\* The patch and verify phases alone: no requirements file, an empty lock,
\* and every export with at most MaxDefects defects.
InitPatch ==
    /\ InitMain
    /\ ~reqFile
    /\ lock = [exists |-> TRUE, packages |-> NoPackages]
    /\ disk = {}

AllTrees == [n \in {1, 2} |-> Trees(n)]

ExportAll == export_notebooks(AllTrees)

NextPatch ==
    \/ ExportAll
    \/ download_assets
    \/ patch_cdn_urls
    \/ patch_publish_button
    \/ patch_mode_url_sync
    \/ patch_layout_url_sync
    \/ patch_wasm_share_links
    \/ patch_share_layout_embed
    \/ Checkpoint1
    \/ download_marimo_base
    \/ download_wasm_extras
    \/ create_index_page
    \/ verify_build
    \/ Checkpoint2

SpecPatch == InitPatch /\ [][NextPatch]_vars

-----------------------------------------------------------------------------
(* Properties of main() *)

\* The steps whose errors come from the patch functions, and those whose
\* errors come from the files of the tree.
PatchSteps ==
    {"cdn-urls", "publish-button", "mode-url-sync", "layout-url-sync",
     "share-links", "layout-embed"}
TreeSteps == PatchSteps \cup {"verify-cdn", "verify-markers", "verify-publish"}

Exit0 == mainpc = "exit_0"
Exit1 == mainpc = "exit_1"
Recorded(steps) == \E i \in 1..Len(errors) : errors[i].step \in steps

\* C3 (as claimed): at exit 0 the lock has an entry for every package a
\* requirement line or a surviving dependency declaration named.
C3_ClosureInLock ==
    Exit0 => \A m \in named : m[1] \in DOMAIN lock.packages

\* C4 (as claimed): at exit 0 the lock has an entry under the key of every
\* line of the list: of every name[specifier] line, and b for the git+ line.
C4_TopLevelInLock ==
    Exit0 => /\ TopLevelKeys \subseteq DOMAIN lock.packages
             /\ HasGitLine => NameB \in DOMAIN lock.packages

\* Whether main() got as far as download_wasm_extras.
ReachedExtras == "download_wasm_extras" \in netLog

\* C9 (as claimed): a run that got to the resolution and ends by an exit,
\* whose tree has no defect and whose marimo-base download worked, exits 0
\* whatever was left unresolved.
C9_ResolutionNonFatal ==
    (/\ Exit0 \/ Exit1
     /\ ReachedExtras
     /\ ~Recorded(TreeSteps \cup {"marimo-base"}) /\ lock.exists)
    => Exit0

\* C9 (amended): from download_wasm_extras on, no resolution failure but a
\* failed archive download ends the run by a traceback; the run exits 0
\* only with an empty error list and with every name[specifier] line's key
\* in the lock; and with a lock, a tree without defects and marimo-base in
\* place, it exits 1 only when the key of some name[specifier] line is
\* missing from the lock.
C9_TopLevelGate ==
    /\ (mainpc = "traceback" /\ ReachedExtras)
       => \E f \in netFail : f[1] = "download"
    /\ Exit0 => /\ errors = <<>>
                /\ lock.exists
                /\ TopLevelKeys \subseteq DOMAIN lock.packages
    /\ (/\ Exit1 /\ ReachedExtras
        /\ ~Recorded(TreeSteps \cup {"marimo-base"}) /\ lock.exists)
       => ~(TopLevelKeys \subseteq DOMAIN lock.packages)

\* A run that exits 0 although a dependency's metadata request failed and
\* the dependency is in no entry of the lock.
C9_Witness ==
    /\ Exit0
    /\ \E f \in netFail : f[1] = "metadata" /\ f[2] \notin DOMAIN lock.packages
    /\ reqs # <<>>

PatchPhase ==
    {"patch_cdn_urls", "patch_publish_button", "patch_mode_url_sync",
     "patch_layout_url_sync", "patch_wasm_share_links",
     "patch_share_layout_embed", "checkpoint_1"}

\* C10: once the patch phase is over with an error in the list, the run
\* has exited 1, and download_marimo_base, download_wasm_extras, the
\* metadata requests, the archive downloads and the git builds have not run.
C10_FailFast ==
    (Recorded(PatchSteps) /\ mainpc \notin PatchPhase)
    => /\ Exit1
       /\ netLog = {}
       /\ phase = "idle"
       /\ metaN = ZeroCount /\ dlN = ZeroCount /\ buildN = 0

C10_Witness ==
    /\ Exit1
    /\ Recorded(PatchSteps)
    /\ reqFile /\ reqs # <<>>
    /\ netLog = {}

\* How a run ends: sys.exit(0) falls off main(), sys.exit(1), or an
\* exception nothing catches.
Ended == mainpc \in {"exit_0", "exit_1", "traceback"}
NonZero == mainpc \in {"exit_1", "traceback"}
Checkpoints == {"checkpoint_1", "checkpoint_2"}

\* C11 (as claimed): a run that has ended exited non-zero exactly when a
\* checkpoint found the error list non-empty, and exited zero otherwise.
C11_ZeroOtherwise ==
    Ended => (NonZero <=> (Exit1 /\ errors # <<>>))

\* C11 (amended): a checkpoint that finds the error list non-empty exits 1;
\* the run exits 0 only from the second checkpoint, with an empty list and
\* after the first checkpoint let it through to download_marimo_base; an
\* exit 1 with an empty list comes only from export_notebooks or from
\* detect_pyodide_version, and a traceback only from a failed export, a
\* failed asset download or a failed archive download of the resolution.
C11_ExitCodes ==
    [][ /\ (mainpc \in Checkpoints /\ errors # <<>>) => mainpc' = "exit_1"
        /\ mainpc' = "exit_0"
           => /\ mainpc = "checkpoint_2" /\ errors = <<>>
              /\ "download_marimo_base" \in netLog
        /\ (mainpc' = "exit_1" /\ errors = <<>>)
           => mainpc \in {"export_notebooks", "download_assets"}
        /\ mainpc' = "traceback"
           => mainpc \in {"export_notebooks", "download_assets", "resolving"}
      ]_vars

\* A run that the first checkpoint let through and the second one stopped.
C11_Witness ==
    /\ Exit1
    /\ errors # <<>>
    /\ "download_marimo_base" \in netLog
    /\ ~Recorded(PatchSteps)

InErrors(step, what, path) ==
    \E i \in 1..Len(errors) : errors[i] = Err(step, what, path)

\* The patch phase is over: the first checkpoint, or the exit it took.
AfterPatches ==
    \/ mainpc = "checkpoint_1"
    \/ Exit1 /\ Recorded(PatchSteps)

\* Every file whose text has what a patch looks for carries that patch.
EveryMatchPatched ==
    LET files == tree.files
    IN /\ \A p \in VerifyScans(files) : \A u \in files[p].urls : ~Replaced(u)
       /\ \A p \in Glob(files, "useNotebookActions") :
             "publish:pattern" \notin files[p].feats
       /\ \A p \in Glob(files, "mode") :
             FirstMissing(files[p], ModeWants) = ""
             => Has(files[p], "view-as subscription")
       /\ \A p \in Glob(files, "layout") :
             /\ FirstMissing(files[p], Tail(LayoutWants)) = ""
                => /\ "selectedLayout:vertical" \notin files[p].feats
                   /\ ("selectedLayout:searchParams" \in files[p].feats
                       => Has(files[p], "layout subscription"))
             /\ FirstMissing(files[p], EmbedWants) = ""
                => Has(files[p], "__marimoGetSerializedLayout global")
       /\ \A p \in Glob(files, "share") :
             "shareFn" \in files[p].feats
             => /\ Has(files[p], "Notebook still loading fallback")
                /\ Has(files[p], "__marimoGetSerializedLayout embed")
                /\ "baseUrl:marimo.app" \notin files[p].feats
       /\ \A p \in NotebookHtmls(files, single_notebook) :
             (p \in DOMAIN files /\ "</marimo-code>" \in files[p].feats)
             => "data-marimo-share" \in files[p].feats

\* Every file that a patch could not match is in the error list, under the
\* step and with what was not found.
EveryFailureRecorded ==
    LET files == tree.files
    IN /\ \A p \in Glob(files, "useNotebookActions") :
             "publish:hidden" \notin files[p].feats
             => InErrors("publish-button", "regex did not match", p)
       /\ \A p \in Glob(files, "mode") :
             FirstMissing(files[p], ModeWants) # ""
             => InErrors("mode-url-sync", FirstMissing(files[p], ModeWants), p)
       /\ \A p \in Glob(files, "layout") :
             /\ "selectedLayout:searchParams" \notin files[p].feats
                => InErrors("layout-url-sync",
                            FirstMissing(files[p], LayoutWants), p)
             /\ FirstMissing(files[p], EmbedWants) # ""
                => InErrors("layout-embed",
                            FirstMissing(files[p], EmbedWants), p)
       /\ \A p \in Glob(files, "share") :
             "shareFn" \notin files[p].feats
             => /\ InErrors("share-links", "shareFn", p)
                /\ InErrors("layout-embed", "error-throw pattern", p)
       /\ \A p \in NotebookHtmls(files, single_notebook) \cap DOMAIN files :
             "data-marimo-share" \notin files[p].feats
             => InErrors("share-links", "</marimo-code>", p)

\* C12: when the patch phase is over, whatever failed, every patch has been
\* applied to every file of its glob that has its patterns, the files after
\* a failing one included, and every file a patch could not match is in the
\* error list, which the checkpoint prints entry by entry when it exits 1.
C12_PatchIsolation ==
    AfterPatches
    => /\ EveryMatchPatched
       /\ EveryFailureRecorded

\* Two notebooks: patch_mode_url_sync failed on the chunk of one and
\* patched the chunk of the other, a later patch function failed too, and
\* the run has exited 1 with both failures in the list.
C12_Witness ==
    /\ Exit1
    /\ tree.notebooks = 2
    /\ \E p, q \in Glob(tree.files, "mode") :
          /\ InErrors("mode-url-sync", "store", p)
          /\ Has(tree.files[q], "view-as subscription")
    /\ Recorded({"share-links"})
    /\ \A p \in Glob(tree.files, "layout") :
          Has(tree.files[p], "layout subscription")

-----------------------------------------------------------------------------
(* The patch phase in another order *)

\* The six patch functions in the order of main().
PatchOps ==
    <<"cdn-urls", "publish-button", "mode-url-sync", "layout-url-sync",
      "share-links", "layout-embed">>

ApplyOp(op, s, single) ==
    CASE op = "cdn-urls" -> PatchCdnUrls(s)
      [] op = "publish-button" -> PatchPublishButton(s)
      [] op = "mode-url-sync" -> PatchModeUrlSync(s)
      [] op = "layout-url-sync" -> PatchLayoutUrlSync(s)
      [] op = "share-links" -> PatchWasmShareLinks(s, single)
      [] op = "layout-embed" -> PatchShareLayoutEmbed(s)

RECURSIVE RunOrder(_, _, _)
\* The files and the error list after the functions of order ran in turn.
RunOrder(order, s, single) ==
    IF order = <<>> THEN s
    ELSE RunOrder(Tail(order), ApplyOp(Head(order), s, single), single)

\* Every order of the six functions.
Orders ==
    {[i \in 1..Len(PatchOps) |-> PatchOps[p[i]]] :
        p \in {q \in [1..Len(PatchOps) -> 1..Len(PatchOps)] :
                 \A i, j \in 1..Len(PatchOps) : q[i] = q[j] => i = j}}

Position(order, op) == CHOOSE i \in 1..Len(order) : order[i] = op
Before(order, a, b) == Position(order, a) < Position(order, b)

\* The orders that keep patch_share_layout_embed after the two functions
\* whose output it builds on.
EmbedLastOrders ==
    {o \in Orders : /\ Before(o, "share-links", "layout-embed")
                    /\ Before(o, "layout-url-sync", "layout-embed")}

ErrorSet(errs) == {errs[i] : i \in 1..Len(errs)}
SameOutcome(a, b) == a.files = b.files /\ ErrorSet(a.errs) = ErrorSet(b.errs)

\* The defects that bear on the patch functions: a missing pattern, a
\* missing or renamed chunk, in the files of the first notebook.
OrderDefects(n) ==
    {d \in Defects(n) : /\ d.op # "url"
                        /\ d.path[1] \in {"", "nb1"}
                        /\ GoodTree(n).files[d.path].kind # "chunk"}

OrderTrees == [n \in {1, 2} |-> TreesWith(n, OrderDefects(n))]

ExportOrder == export_notebooks(OrderTrees)

\* The run up to the first checkpoint, over the exports of OrderTrees.
NextOrder ==
    \/ ExportOrder
    \/ download_assets
    \/ patch_cdn_urls
    \/ patch_publish_button
    \/ patch_mode_url_sync
    \/ patch_layout_url_sync
    \/ patch_wasm_share_links
    \/ patch_share_layout_embed
    \/ Checkpoint1

SpecOrder == InitPatch /\ [][NextOrder]_vars

\* The export is written and the assets are in place; no patch has run.
BeforePatches == mainpc = "patch_cdn_urls"

-----------------------------------------------------------------------------
(* Properties of verify_build *)

\* A file without any occurrence of a substring.
Stripped(f, marker) ==
    [f EXCEPT !.feats = @ \ Mentions(marker),
              !.ins = SelectSeq(@, LAMBDA t : t \notin Mentions(marker))]

Removed(files, p, marker) == [files EXCEPT ![p] = Stripped(@, marker)]

\* The files a rule's glob matches that hold the rule's marker.
Holders(files, rule) ==
    {p \in Glob(files, rule.glob) : TextHas(files[p], rule.marker)}

Rules == {_REQUIRED_MARKERS[i] : i \in 1..Len(_REQUIRED_MARKERS)}

\* C14 (as claimed): on a tree that passed verification, with one or with
\* several notebooks, taking a rule's marker out of one file its glob
\* matches makes verify_build record exactly one error, the verify-markers
\* error of that rule.
C14_OneErrorPerRemoval ==
    Exit0
    => \A rule \in Rules : \A p \in Holders(tree.files, rule) :
          VerifyTree(Removed(tree.files, p, rule.marker))
          = <<Err("verify-markers", rule.desc, NoPath)>>

\* C14 (amended): on a tree that passed verification, taking a rule's
\* marker out of one file makes verify_build record the verify-markers error
\* of that rule and nothing else when no other file of the rule's glob holds
\* the marker, and no error at all when another file still holds it.
C14_LastHolder ==
    Exit0
    => \A rule \in Rules : \A p \in Holders(tree.files, rule) :
          VerifyTree(Removed(tree.files, p, rule.marker))
          = IF Holders(tree.files, rule) = {p}
            THEN <<Err("verify-markers", rule.desc, NoPath)>>
            ELSE <<>>

\* A verified single-notebook tree where the marker of the share-link
\* fallback is in one file only, and taking it out gives that one error.
C14_Witness ==
    /\ Exit0
    /\ tree.notebooks = 1
    /\ \E rule \in Rules : \E p \in Holders(tree.files, rule) :
          /\ rule.desc = "share-link error fallback"
          /\ Holders(tree.files, rule) = {p}
          /\ Len(VerifyTree(Removed(tree.files, p, rule.marker))) = 1

\* verify_build has run: the second checkpoint, or the exit it took.
Verified ==
    \/ mainpc = "checkpoint_2"
    \/ Exit0
    \/ Exit1 /\ ReachedExtras

ForbiddenOrigins == {_FORBIDDEN_DOMAINS[i] : i \in 1..Len(_FORBIDDEN_DOMAINS)}

\* The .js, .html, .mjs and .css files outside pyodide/, vendor/ and fonts/.
GeneratedFiles ==
    {p \in DOMAIN tree.files :
        /\ tree.files[p].suffix \in {"js", "html", "mjs", "css"}
        /\ p[1] \notin {"pyodide", "vendor", "fonts"}}

\* The file holds https://<origin of the list>, in an occurrence that no
\* entry of the allow-list matches.
HoldsForbidden(f) ==
    \E u \in f.urls :
        /\ u.scheme = "https" /\ u.domain \in ForbiddenOrigins
        /\ <<u.domain, u.path>> \notin _ALLOWED_CDN_URLS

-----------------------------------------------------------------------------
(* Properties of the resolver, continued *)

\* The package was asked of the index, downloaded or entered by
\* download_pypi_package in this call.
Touched(k) == metaN[k] > 0 \/ dlN[k] > 0 \/ k \in DOMAIN visited

\* A line of the requirement list names the package.
Required(k) ==
    \E i \in 1..Len(reqs) :
        reqs[i].kind = "pypi" /\ _pyodide_normalize(reqs[i].name) = k

\* A wheel of a package entered in this call declares the package under a
\* marker that the target environment does not make false.
DeclaredLive(k) ==
    \E w \in disk :
        /\ FileKey(w) \in DOMAIN visited
        /\ \E i \in 1..Len(RequiresDist(w)) :
              /\ _pyodide_normalize(RequiresDist(w)[i].name) = k
              /\ RequiresDist(w)[i].marker # "false"

\* The package built from the git+ line.
Built(k) == buildN > 0 /\ k = NameB

\* C16: a package is asked of the index, downloaded or entered only when a
\* requirement line names it or a wheel of this call declares it under a
\* marker that is not false: a declaration whose marker is false causes no
\* request, no download and no recursion.
C16_MarkerFiltering ==
    \A k \in Keys : Touched(k) => (Required(k) \/ DeclaredLive(k) \/ Built(k))

\* A call that resolved a, whose wheel declares d for win32 only, and left
\* d alone.
C16_Witness ==
    /\ Running /\ stack = <<>> /\ idx > Len(reqs)
    /\ dlN[NameA] = 1
    /\ \E w \in disk :
          /\ FileKey(w) = NameA
          /\ \E i \in 1..Len(RequiresDist(w)) :
                /\ RequiresDist(w)[i].name = NameD
                /\ RequiresDist(w)[i].marker = "false"
    /\ ~Touched(NameD)

\* The lock holds an entry for the line's package whose version meets the
\* line's constraint, or does not parse.
HasSatisfying(line) ==
    LET pkg_key == _pyodide_normalize(line.name) IN
    /\ lock.exists
    /\ pkg_key \in DOMAIN lock.packages
    /\ \/ lock.packages[pkg_key].version = Unparsable
       \/ InSpec(lock.packages[pkg_key].version, line.spec)

\* The loop of resolve_and_download_packages is at a name[specifier] line.
AtPypiLine ==
    /\ Running /\ stack = <<>> /\ idx <= Len(reqs)
    /\ reqs[idx].kind = "pypi"

\* C17: a call of download_pypi_package for a requirement that an entry of
\* the lock satisfies, or whose entry has a version that does not parse,
\* returns True at once with the package marked visited: no metadata
\* request, no download, no build, and the lock and the archive directory
\* as they were.
C17_BundledShortCircuit ==
    [][ (AtPypiLine /\ HasSatisfying(reqs[idx]))
        => /\ _pyodide_normalize(reqs[idx].name) \in DOMAIN visited'
           /\ ret' = "true"
           /\ stack' = <<>>
           /\ UNCHANGED <<lock, disk, metaN, asked, dlN, buildN, built, netFail>>
      ]_vars

\* The lock's entry for d has a version that does not parse, the list asks
\* for d>=2, and d is visited with no request and nothing changed.
C17_Witness ==
    /\ \E i \in 1..Len(reqs) : reqs[i] = Req(NameD, Ge(2))
    /\ NameD \in DOMAIN lock0.packages
    /\ lock0.packages[NameD].version = Unparsable
    /\ NameD \in DOMAIN visited
    /\ ret = "true"
    /\ metaN[NameD] = 0 /\ dlN[NameD] = 0
    /\ lock = lock0 /\ disk = disk0

\* The resolver with every step it can take taken in the end: the program
\* runs on until the call is over.
SpecLive == Spec /\ WF_vars(Next)

\* The call is over: it returned, or a failed download raised out of it.
CallOver == phase \in {"done", "aborted"}

\* The packages of the calls of download_pypi_package that are under way.
StackKeys == {_pyodide_normalize(stack[i].name) : i \in 1..Len(stack)}

-----------------------------------------------------------------------------
(* The resolver under a pip.conf *)

OneLine == SeqsUpTo(ReqLines, 1)

InitIndex == InitLib(OneLine, Confs) /\ index = PypiIndex

SpecIndex == InitIndex /\ [][Next]_vars

\* An index-url that is set and is not the public index.
Alternate == pip_conf.index_url # "" /\ ~OnPypiOrg(pip_conf.index_url)

\* C19 (as claimed): with an alternate index-url in [global], every metadata request of
\* the call goes to that index and not to pypi.org; with a proxy in
\* [global], every metadata request goes through that proxy.
C19_ConfiguredIndex ==
    \A r \in asked :
        /\ Alternate => r.url = pip_conf.index_url
        /\ pip_conf.proxy # "" => r.proxy = pip_conf.proxy

-----------------------------------------------------------------------------
(* Properties of the lock file *)

\* download_pypi_package registers the wheel of the frame on top.
PypiRegisters ==
    /\ stack # <<>> /\ Top.pc = "archive"
    /\ Len(stack') = Len(stack) /\ stack'[Len(stack)].pc = "deps"

\* The git branch registers the wheel build_git_wheel returned.
GitRegisters == stack = <<>> /\ stack' # <<>> /\ stack'[1].fn = "git"

\* The step sets the entry of pkg_key, to a wheel that is in the archive
\* directory, and keeps every other entry.
SetsOnly(pkg_key) ==
    /\ lock'.exists
    /\ DOMAIN lock'.packages = DOMAIN lock.packages \cup {pkg_key}
    /\ \A k \in DOMAIN lock.packages \ {pkg_key} :
          lock'.packages[k] = lock.packages[k]
    /\ lock'.packages[pkg_key].name = pkg_key
    /\ lock'.packages[pkg_key].file_name \in disk'

\* The keys the call has written so far.
Written == {k \in DOMAIN lock.packages :
              k \notin DOMAIN lock0.packages \/ lock.packages[k] # lock0.packages[k]}

\* C20: every registration sets the entry under the normalized key of the
\* package it registers and keeps every other entry of the document as it
\* is on disk; nothing else writes the document; so at every point of a
\* call the document holds every entry it started with, those the call did
\* not register unchanged, and every entry the call has written.
C20_LoadMergeWrite ==
    /\ [][ /\ ((PypiRegisters /\ lock.exists)
                => SetsOnly(_pyodide_normalize(Top.name)))
          /\ ((GitRegisters /\ lock.exists)
                => SetsOnly(_pyodide_normalize(stack'[1].name)))
          /\ (lock' # lock => (PypiRegisters \/ GitRegisters))
          /\ ((lock.exists /\ run' = run)
                => Written \subseteq DOMAIN lock'.packages)
        ]_vars
    /\ [](\A k \in DOMAIN lock0.packages :
            /\ k \in DOMAIN lock.packages
            /\ ((k \notin DOMAIN visited \/ visited[k].kind = "bundled")
                  => lock.packages[k] = lock0.packages[k]))

C20_Witness ==
    /\ lock.exists
    /\ DOMAIN lock0.packages # {}
    /\ Cardinality(DOMAIN lock.packages \ DOMAIN lock0.packages) >= 2
    /\ \A k \in DOMAIN lock0.packages : lock.packages[k] = lock0.packages[k]

-----------------------------------------------------------------------------
(* Version selection, over the documents an index can answer with *)

MaxVer == 4

\* The file list of a release: a platform wheel alone, or a platform wheel
\* followed by a pure-Python one.
ReleaseFiles(name, v, kind) ==
    IF kind = "plat" THEN <<Wheel(name, v, "cp312-cp312-linux")>>
    ELSE <<Wheel(name, v, "cp312-cp312-linux"),
           Wheel(name, v, IF v % 2 = 0 THEN "py2.py3-none-any"
                                       ELSE "py3-none-any")>>

\* The documents for a package: any non-empty set of releases out of
\* 1..MaxVer and one key that is not a version, and as the reported latest
\* any release that is a final version.
Docs(name) ==
    { [info |-> [version |-> l],
       releases |-> [v \in V |-> ReleaseFiles(name, v, kinds[v])]] :
        <<V, kinds, l>> \in
           { <<V, kinds, l>> \in
                UNION { {W} \X [W -> {"plat", "pure"}] \X (W \ PreReleases)
                        : W \in SUBSET ((1..MaxVer) \cup {Unparsable}) } :
                l # Unparsable } }

VersionSpecs == {AnySpec, Ge(2), Lt(3), [op |-> "==", v |-> 2]}

VersionLists ==
    {<<Req(NameD, sp), BadReq>> : sp \in VersionSpecs} \cup {<<GitReq>>}

InitVersion ==
    /\ InitLib(VersionLists, {NoConf})
    /\ DOMAIN lock.packages = {}
    /\ disk = {}
    /\ \E doc \in Docs(NameD) : index = [PypiIndex EXCEPT ![NameD] = doc]

SpecVersion == InitVersion /\ [][Next]_vars

\* The release has a pure-Python wheel.
Portable(doc, v) ==
    \E i \in 1..Len(doc.releases[v]) : IsPure(doc.releases[v][i])

\* The final releases in range that have a pure-Python wheel.
Eligible(doc, spec) ==
    {v \in DOMAIN doc.releases :
        /\ v # Unparsable
        /\ InSpec(v, spec)
        /\ v \notin PreReleases
        /\ Portable(doc, v)}

\* The versions the rule allows: the reported latest when it is in range
\* with a pure-Python wheel, else the greatest eligible release.
Selection(doc, spec) ==
    LET latest == doc.info.version IN
    IF /\ InSpec(latest, spec)
       /\ latest \in DOMAIN doc.releases
       /\ Portable(doc, latest)
    THEN {latest}
    ELSE {v \in Eligible(doc, spec) : \A w \in Eligible(doc, spec) : w <= v}

\* The metadata request of the frame on top is answered: no request for
\* this package has failed so far, this one included.
Answered ==
    /\ stack # <<>> /\ Top.pc = "fetch"
    /\ metaN' # metaN
    /\ <<"metadata", _pyodide_normalize(Top.name)>> \notin netFail'

-----------------------------------------------------------------------------
(* Properties of the git branch *)

\* build_git_wheel has run for the line at idx.
GitBuilt == buildN' = buildN + 1

\* What pip produced is no wheel, or a wheel that neither its file name nor
\* its WHEEL metadata tags as pure-Python.
NotPortable(o) ==
    \/ o.returncode # 0
    \/ ~o.wheels
    \/ o.tag \notin PureTags /\ o.wheelMeta \notin PureTags

\* C22 (as claimed): when the build of a git+ line fails, produces no wheel
\* or produces a wheel that neither its file name nor its WHEEL metadata
\* tags as pure-Python, nothing is copied into the archive directory, no
\* lock entry is written, no visited entry is added, and the loop goes on
\* with the next line.
C22_GitRejected ==
    [][ (GitBuilt /\ NotPortable(built'))
        => /\ UNCHANGED <<disk, lock, visited, stack>>
           /\ idx' = idx + 1
           /\ phase' = "run"
      ]_vars

-----------------------------------------------------------------------------
(* main() called again in the same process *)

\* A caller that caught the SystemExit of one run calls main() once more:
\* the output directory is removed and made again, the module global
\* _patch_errors is what the first run left.
MainAgain ==
    /\ mainpc \in {"exit_0", "exit_1"}
    /\ run = 1
    /\ run' = 2
    /\ mainpc' = "export_notebooks"
    /\ tree' = EmptyTree
    /\ lock' = lock0
    /\ disk' = disk0
    /\ netLog' = {}
    /\ errors' = errors
    /\ UNCHANGED <<visited, stack, idx, phase, ret, lock0, disk0, metaN, asked,
                   dlN, buildN, built, named, reqs, reqFile, pip_conf, index,
                   netFail>>

NextAgain ==
    \/ ExportMain
    \/ download_assets
    \/ patch_cdn_urls
    \/ patch_publish_button
    \/ patch_mode_url_sync
    \/ patch_layout_url_sync
    \/ patch_wasm_share_links
    \/ patch_share_layout_embed
    \/ Checkpoint1
    \/ download_marimo_base
    \/ download_wasm_extras
    \/ create_index_page
    \/ verify_build
    \/ Checkpoint2
    \/ MainAgain

SpecAgain == InitPatch /\ [][NextAgain]_vars

\* C23 (as claimed): at the beginning of every run of main(), a second run
\* in the same process included, the error list is empty.
C23_ClearedAtStart == mainpc = "export_notebooks" => errors = <<>>

-----------------------------------------------------------------------------
(* Properties of the lock entries *)

\* The imports the archive gives: the names of top_level.txt, else the
\* package directories, else the name itself.
ArchiveImports(f) ==
    LET c == WheelContents(f)
        listed == {c.top_level.lines[i] : i \in 1..Len(c.top_level.lines)} \ {<<>>}
        packages == {d.name : d \in {e \in c.dirs : e.kind = "package"}}
    IN IF listed # {} THEN listed
       ELSE IF packages # {} THEN packages
       ELSE {PkgUnder(f.dist)}

-----------------------------------------------------------------------------
(* Properties of patch_publish_button *)

\* The broader search runs, no useNotebookActions chunk having been
\* patched, and patches at least one .js file.
FallbackPatches(files) ==
    /\ \A p \in Glob(files, "useNotebookActions") :
          PublishHidden(files[p]) = files[p]
    /\ \E p \in DOMAIN files :
          /\ files[p].suffix = "js"
          /\ HasPublishText(files[p])
          /\ PublishHidden(files[p]) # files[p]

\* C25 (as claimed): when the broader search of patch_publish_button
\* patches at least one file, the step leaves no publish-button error in
\* the list.
C25_FallbackClearsError ==
    [][ (mainpc = "patch_publish_button" /\ mainpc' # mainpc
         /\ FallbackPatches(tree.files))
        => ~\E i \in 1..Len(errors') : errors'[i].step = "publish-button"
      ]_vars

-----------------------------------------------------------------------------
(* Properties of the metadata requests *)

Asks(k) == metaN'[k] = metaN[k] + 1

-----------------------------------------------------------------------------
(* The resolver started on an empty lock: every entry is one it wrote *)

InitFresh == Init /\ DOMAIN lock.packages = {}

SpecFresh == InitFresh /\ [][Next]_vars

\* C27 (as claimed): at every state of the resolution and after it, the
\* state an aborted call leaves included, every entry the resolver wrote
\* names a wheel that is in the archive directory and carries the digest
\* of that file.
C27_ManifestDiskAgreement ==
    \A k \in DOMAIN lock.packages :
        /\ lock.packages[k].file_name \in disk
        /\ lock.packages[k].sha256 = Sha256(lock.packages[k].file_name)

-----------------------------------------------------------------------------
(* Properties of the return of download_pypi_package *)

\* download_pypi_package returns True at the end of its dependency loop:
\* the call had selected a version (neither the visited nor the bundled
\* return builds a frame).
ReturnsSelected ==
    /\ stack # <<>> /\ Top.fn = "pypi" /\ Top.pc = "deps" /\ Top.deps = <<>>
    /\ stack' = Pop(stack)

\* C28 (as claimed): when download_pypi_package returns True after it
\* selected a version, pyodide-lock.json is there and holds an entry for
\* the package at the selected version, also when there was no document
\* before the call.
C28_EntryAtReturn ==
    [][ReturnsSelected =>
          /\ lock'.exists
          /\ _pyodide_normalize(Top.name) \in DOMAIN lock'.packages
          /\ lock'.packages[_pyodide_normalize(Top.name)].version = Top.version
      ]_vars

-----------------------------------------------------------------------------
(* The pipeline over exports of notebooks of several names *)

\* Path(nb).stem of the second notebook: the directory it is exported to.
NotebookNames == {"nb2", "fonts_demo", "vendor"}

\* The export of nb1.py and of a notebook called name.
NamedTree(name) == Merge({"nb1", name}, NoFiles)

\* One more URL in the page or in the worker of the second notebook.
NamedDefects(name) ==
    {Defect("url", Path(name, f), u) :
        f \in {"index.html", "assets/worker-1.js"},
        u \in {UrlEmoji, UrlWasmApi, UrlMathjax}}

NamedTrees ==
    [n \in {1, 2} |->
        IF n = 1 THEN TreesWith(1, MainDefects)
        ELSE UNION {{[notebooks |-> 2,
                      files |-> DamageAll(NamedTree(name), ds)] :
                        ds \in SubsetsUpTo(NamedDefects(name), 1)} :
                    name \in NotebookNames}]

ExportNamed == export_notebooks(NamedTrees)

NextNamed ==
    \/ ExportNamed
    \/ download_assets
    \/ patch_cdn_urls
    \/ patch_publish_button
    \/ patch_mode_url_sync
    \/ patch_layout_url_sync
    \/ patch_wasm_share_links
    \/ patch_share_layout_embed
    \/ Checkpoint1
    \/ download_marimo_base
    \/ download_wasm_extras
    \/ create_index_page
    \/ verify_build
    \/ Checkpoint2

SpecNamed == InitPatch /\ [][NextNamed]_vars

\* C29 (as claimed): patch_cdn_urls leaves a .js, .html, .mjs or .css file
\* alone as vendor content exactly when the forbidden-domain scan of
\* verify_build leaves it out, so every file the scan reads is one the
\* rewrite went over.
C29_SameVendorTest ==
    \A p \in DOMAIN tree.files :
        tree.files[p].suffix \in Scanned => (CdnSkips(p) <=> VerifySkips(p))

-----------------------------------------------------------------------------
(* Properties of patch_mode_url_sync and patch_layout_url_sync *)

ModeStep == mainpc = "patch_mode_url_sync" /\ mainpc' = "patch_layout_url_sync"
LayoutStep ==
    mainpc = "patch_layout_url_sync" /\ mainpc' = "patch_wasm_share_links"

\* The errors the step appends.
NewErrors == {errors'[i] : i \in (Len(errors) + 1)..Len(errors')}

\* Over the step: a file of the glob that holds every pattern of wants is
\* written, with one more injection and no error; any other file of the
\* glob is as it was and has an error of the step that names it; the files
\* outside the glob are as they were.
AllOrNothing(kind, wants, step) ==
    /\ DOMAIN tree'.files = DOMAIN tree.files
    /\ \A p \in DOMAIN tree.files :
          LET f == tree.files[p]
              g == tree'.files[p]
          IN IF f.kind = kind /\ \A i \in 1..Len(wants) : wants[i] \in f.feats
             THEN /\ g # f
                  /\ Len(g.ins) = Len(f.ins) + 1
                  /\ \A e \in NewErrors : e.path # p
             ELSE /\ g = f
                  /\ f.kind = kind
                       => \E e \in NewErrors : e.step = step /\ e.path = p

\* C30: patch_mode_url_sync and patch_layout_url_sync write a file only
\* when every pattern they need was found in it; a file that lacks one is
\* left as it was, an error naming it is recorded, and the other files are
\* still patched.
C30_AllOrNothing ==
    [][ /\ (ModeStep => AllOrNothing("mode", ModeWants, "mode-url-sync"))
        /\ (LayoutStep => AllOrNothing("layout", LayoutWants, "layout-url-sync"))
      ]_vars

\* After patch_layout_url_sync over two notebooks: the chunk of nb1 holds
\* the default but no valueAtom and is untouched, with its error; the chunk
\* of nb2 is patched.
C30_Witness ==
    /\ mainpc = "patch_wasm_share_links"
    /\ Path("nb1", "assets/layout-1.js") \in DOMAIN tree.files
    /\ Path("nb2", "assets/layout-1.js") \in DOMAIN tree.files
    /\ LET f == tree.files[Path("nb1", "assets/layout-1.js")]
           g == tree.files[Path("nb2", "assets/layout-1.js")]
       IN /\ f.kind = "layout" /\ f.ins = <<>>
          /\ "selectedLayout:vertical" \in f.feats
          /\ "valueAtom" \notin f.feats
          /\ g.ins = <<"layout subscription">>
          /\ "selectedLayout:searchParams" \in g.feats
    /\ \E i \in 1..Len(errors) :
          /\ errors[i].step = "layout-url-sync"
          /\ errors[i].path = Path("nb1", "assets/layout-1.js")

=============================================================================
